---------------------------- MODULE Spec2Model ----------------------------
(***************************************************************************)
(* A model of the core of Py4A: the diff engine (py4a/api/diff.py), the    *)
(* reference resolver (py4a/api/entity.py) and the access-chain extractor  *)
(* and signature matcher (py4a/client/analyzer.py).                        *)
(*                                                                         *)
(* Python strings whose characters the code inspects (default texts,       *)
(* access texts) are sequences of one-character strings.  Dotted paths the *)
(* code only splits on "." are sequences of segments.  An Optional value   *)
(* is a sequence of length 0 (None) or 1.                                  *)
(***************************************************************************)
EXTENDS Integers, Sequences, FiniteSets, TLC

VARIABLES
    pc,         \* position of the driver: "<operation>_input" or "<operation>_done"
    old,        \* diff_function: the old Function; diff_pkg: the old federation
    new,        \* diff_function: the new Function; diff_pkg: the new federation
    diffs,      \* diff_function, diff_pkg: the returned list of Diff
    breaking,   \* generate_release_notes: is_breaking of each Diff of the list
    apis,       \* the federation: top-level name -> Package
    call_args,  \* resolver: the arguments of the call in progress
    result,     \* resolver: what the call returned or raised
    call,       \* Call.match: the Call (self)
    func,       \* Call.match: the Function matched against
    class_func, \* Call.match: whether the call is matched as a bound method
    matched,    \* Call.match: the returned (bool, message)
    calls,      \* _resolve_aliases: the recorded accesses, text -> line numbers, in insertion order
    aliases,    \* _resolve_aliases: alias name -> its target texts, in the order the set is iterated
    results,    \* _resolve_aliases: the dict being built, in insertion order
    prev_len,   \* _resolve_aliases: len(results) before the previous round
    round,      \* _resolve_aliases: rounds of the propagation loop started so far
    stack,      \* resolver: the frames of get / query in progress, innermost last
    client,     \* get_api_access_chains: the client source, its import and its statements
    chains,     \* get_api_access_chains: the returned list of AccessChain
    failed_modules, \* static: the module-level dict of failed units (key, text), in insertion order
    runs,       \* static: the extractions in progress: position, input, package built, what was read
    source_dir, \* get_apis_from_dir: the directory analysed, its entries in listing order
    package,    \* get_apis_from_dir: the Package tree built from the directory
    access_chains, \* check_tree: source unit -> list of AccessChain, in insertion order
    violations, \* check_tree: the returned dict, unit -> list of (chain, MatchResult)
    tree,       \* get_api_entities: the ast.Module of one source unit
    api_entities \* get_api_entities: the returned list of entities

vars == <<pc, old, new, diffs, breaking, apis, call_args, result, call, func, class_func, matched,
          calls, aliases, results, prev_len, round, stack, client, chains,
          failed_modules, runs, source_dir, package, access_chains, violations,
          tree, api_entities>>

diffVars == <<old, new, diffs, breaking>>

resolverVars == <<apis, call_args, result>>

matchVars == <<call, func, class_func, matched>>

aliasVars == <<calls, aliases, results, prev_len, round>>

stackVars == <<stack>>

chainVars == <<client, chains>>

staticVars == <<failed_modules, runs>>

importsVars == <<source_dir, package>>

checkerVars == <<access_chains, violations>>

entitiesVars == <<tree, api_entities>>

\* the variables of the operations modelled after the first four
moreVars == <<stackVars, chainVars, staticVars, importsVars, checkerVars, entitiesVars>>

besidesStack == <<chainVars, staticVars, importsVars, checkerVars, entitiesVars>>

besidesChain == <<stackVars, staticVars, importsVars, checkerVars, entitiesVars>>

besidesStatic == <<stackVars, chainVars, importsVars, checkerVars, entitiesVars>>

besidesImports == <<stackVars, chainVars, staticVars, checkerVars, entitiesVars>>

besidesChecker == <<stackVars, chainVars, staticVars, importsVars, entitiesVars>>

besidesEntities == <<stackVars, chainVars, staticVars, importsVars, checkerVars>>

-----------------------------------------------------------------------------
(* Generic helpers *)

None == <<>>

Some(x) == <<x>>

Range(s) == {s[i] : i \in DOMAIN s}

\* All orders in which a Python set can be iterated
Perms(S) == {s \in [1..Cardinality(S) -> S] : \A i, j \in 1..Cardinality(S) : s[i] = s[j] => i = j}

RECURSIVE Flatten(_)
Flatten(ss) == IF ss = <<>> THEN <<>> ELSE Head(ss) \o Flatten(Tail(ss))

\* str.startswith
StartsWith(s, p) == Len(s) >= Len(p) /\ SubSeq(s, 1, Len(p)) = p

\* the `in` operator on two strings
Contains(s, p) == \E i \in 1..(Len(s) - Len(p) + 1) : SubSeq(s, i, i + Len(p) - 1) = p

\* s.split(c)[0]
BeforeFirst(s, c) ==
    IF \E i \in DOMAIN s : s[i] = c
    THEN SubSeq(s, 1, (CHOOSE i \in DOMAIN s : s[i] = c /\ \A j \in 1..(i - 1) : s[j] # c) - 1)
    ELSE s

-----------------------------------------------------------------------------
(* Entity model: Argument and Function *)

Argument(name, default, pos_only, kw_only, vararg, kwarg) ==
    [name |-> name, default |-> default, pos_only |-> pos_only,
     kw_only |-> kw_only, vararg |-> vararg, kwarg |-> kwarg]

\* a standard parameter
Arg(name, default) == Argument(name, default, FALSE, FALSE, FALSE, FALSE)

Function(name, args) == [kind |-> "Function", name |-> name, args |-> args]

-----------------------------------------------------------------------------
(* Diff engine *)

Diff(diff_type, api_name, param, old_value, new_value) ==
    [diff_type |-> diff_type, api_name |-> api_name, param |-> param,
     old_value |-> old_value, new_value |-> new_value]

same_default_value_NoEquality(v1, v2) ==
    \/ StartsWith(v1, <<"<">>) /\ StartsWith(v2, <<"<">>)
    \/ /\ Contains(v1, <<"(">>) /\ Contains(v2, <<"(">>)
       /\ BeforeFirst(v1, "(") = BeforeFirst(v2, "(")

same_default_value(v1, v2) ==
    \/ StartsWith(v1, <<"<">>) /\ StartsWith(v2, <<"<">>)
    \/ /\ Contains(v1, <<"(">>) /\ Contains(v2, <<"(">>)
       /\ BeforeFirst(v1, "(") = BeforeFirst(v2, "(")
    \/ v1 = v2

\* the dictionaries diff_function builds in its first loop
p_all(api) == {api.args[i].name : i \in DOMAIN api.args}

opt(api) == {api.args[i].name : i \in {j \in DOMAIN api.args : api.args[j].default # None}}

\* a later parameter of the same name overwrites the entry of an earlier one
LastIndex(api, p) ==
    CHOOSE i \in DOMAIN api.args :
        api.args[i].name = p /\ \A j \in DOMAIN api.args : api.args[j].name = p => j <= i

p2def(api, p) == api.args[LastIndex(api, p)].default[1]

p2pos(api, p) == LastIndex(api, p) - 1

AddedParamDiff_Swapped(o, n, full_name, p) ==
    IF p \in opt(n)
    THEN <<Diff("ReqParamAdd", full_name, Some(p), None, None)>>
    ELSE <<Diff("OptParamAdd", full_name, Some(p), None, None)>>

\* body of the loop over p_all["new"] - p_all["old"]
AddedParamDiff(o, n, full_name, p) ==
    IF p \in opt(n)
    THEN <<Diff("OptParamAdd", full_name, Some(p), None, None)>>
    ELSE <<Diff("ReqParamAdd", full_name, Some(p), None, None)>>

\* body of the loop over p_all["old"] - p_all["new"]
RemovedParamDiff(o, n, full_name, p) ==
    IF p \in opt(o)
    THEN <<Diff("OptParamRem", full_name, Some(p), None, None)>>
    ELSE <<Diff("ReqParamRem", full_name, Some(p), None, None)>>

SharedParamDiff_ReorderOnlyIfNoDefaultDiff(o, n, full_name, p) ==
    LET defDiffs ==
            (IF p \in opt(o) /\ p \notin opt(n)
             THEN <<Diff("ParamDefValAdd", full_name, Some(p), Some(p2def(o, p)), None)>>
             ELSE <<>>)
         \o (IF p \notin opt(o) /\ p \in opt(n)
             THEN <<Diff("ParamDefValRem", full_name, Some(p), None, Some(p2def(n, p)))>>
             ELSE <<>>)
         \o (IF p \in opt(o) /\ p \in opt(n) /\ ~same_default_value(p2def(o, p), p2def(n, p))
             THEN <<Diff("ParamDefValChg", full_name, Some(p), Some(p2def(o, p)), Some(p2def(n, p)))>>
             ELSE <<>>)
    IN  IF defDiffs # <<>> THEN defDiffs
        ELSE IF p2pos(o, p) # p2pos(n, p)
             THEN <<Diff("ParamReorder", full_name, Some(p), None, None)>>
             ELSE <<>>

\* body of the loop over p_all["old"] & p_all["new"]: four independent ifs
SharedParamDiff(o, n, full_name, p) ==
       (IF p \in opt(o) /\ p \notin opt(n)
        THEN <<Diff("ParamDefValAdd", full_name, Some(p), Some(p2def(o, p)), None)>>
        ELSE <<>>)
    \o (IF p \notin opt(o) /\ p \in opt(n)
        THEN <<Diff("ParamDefValRem", full_name, Some(p), None, Some(p2def(n, p)))>>
        ELSE <<>>)
    \o (IF p \in opt(o) /\ p \in opt(n) /\ ~same_default_value(p2def(o, p), p2def(n, p))
        THEN <<Diff("ParamDefValChg", full_name, Some(p), Some(p2def(o, p)), Some(p2def(n, p)))>>
        ELSE <<>>)
    \o (IF p2pos(o, p) # p2pos(n, p)
        THEN <<Diff("ParamReorder", full_name, Some(p), None, None)>>
        ELSE <<>>)

\* diff_function; ordAdd, ordRem and ordBoth are the orders in which the three
\* Python sets happen to be iterated
diff_function(o, n, full_name, ordAdd, ordRem, ordBoth) ==
       Flatten([i \in DOMAIN ordAdd |-> AddedParamDiff(o, n, full_name, ordAdd[i])])
    \o Flatten([i \in DOMAIN ordRem |-> RemovedParamDiff(o, n, full_name, ordRem[i])])
    \o Flatten([i \in DOMAIN ordBoth |-> SharedParamDiff(o, n, full_name, ordBoth[i])])

-----------------------------------------------------------------------------
(* Inputs of the diff engine *)

MaxArgs == 3

ParamNames == {"a", "b", "c"}

\* default texts: a literal and two call-like texts
DefaultTexts == {<<"1">>, <<"f", "(", "1", ")">>, <<"f", "(", "2", ")">>}

Defaults == {None} \cup {Some(t) : t \in DefaultTexts}

\* parameter lists of distinct names, as Python's grammar requires
ArgLists ==
    UNION {
        {[i \in 1..k |-> Arg(ns[i], ds[i])] :
            ns \in {s \in [1..k -> ParamNames] : \A i, j \in 1..k : s[i] = s[j] => i = j},
            ds \in [1..k -> Defaults]}
        : k \in 0..MaxArgs}

\* The old signature names its parameters a, b, c in this order: every pair of
\* signatures over ParamNames is such a pair up to a renaming of the parameters
ParamOrder == <<"a", "b", "c">>

OldArgLists == {as \in ArgLists : \A i \in DOMAIN as : as[i].name = ParamOrder[i]}

DiffIdle == old = None /\ new = None /\ diffs = <<>> /\ breaking = <<>>

ResolverIdle == apis = <<>> /\ call_args = None /\ result = None

MatchIdle == call = None /\ func = None /\ class_func = FALSE /\ matched = None

AliasIdle == calls = <<>> /\ aliases = <<>> /\ results = <<>> /\ prev_len = 0 /\ round = 0

StackIdle == stack = <<>>

ChainIdle == client = None /\ chains = <<>>

StaticIdle == failed_modules = <<>> /\ runs = <<>>

ImportsIdle == source_dir = None /\ package = None

CheckerIdle == access_chains = <<>> /\ violations = <<>>

EntitiesIdle == tree = None /\ api_entities = None

MoreIdle == StackIdle /\ ChainIdle /\ StaticIdle /\ ImportsIdle /\ CheckerIdle /\ EntitiesIdle

BesidesStackIdle == ChainIdle /\ StaticIdle /\ ImportsIdle /\ CheckerIdle /\ EntitiesIdle

BesidesChainIdle == StackIdle /\ StaticIdle /\ ImportsIdle /\ CheckerIdle /\ EntitiesIdle

BesidesStaticIdle == StackIdle /\ ChainIdle /\ ImportsIdle /\ CheckerIdle /\ EntitiesIdle

BesidesImportsIdle == StackIdle /\ ChainIdle /\ StaticIdle /\ CheckerIdle /\ EntitiesIdle

BesidesCheckerIdle == StackIdle /\ ChainIdle /\ StaticIdle /\ ImportsIdle /\ EntitiesIdle

BesidesEntitiesIdle == StackIdle /\ ChainIdle /\ StaticIdle /\ ImportsIdle /\ CheckerIdle

DiffInit ==
    /\ ResolverIdle
    /\ MatchIdle
    /\ AliasIdle
    /\ MoreIdle
    /\ pc = "diff_input"
    /\ old \in {Function("f", as) : as \in OldArgLists}
    /\ new \in {Function("f", as) : as \in ArgLists}
    /\ diffs = <<>>
    /\ breaking = <<>>

DiffFunction ==
    /\ pc = "diff_input"
    /\ \E ordAdd \in Perms(p_all(new) \ p_all(old)),
          ordRem \in Perms(p_all(old) \ p_all(new)),
          ordBoth \in Perms(p_all(old) \cap p_all(new)) :
            diffs' = diff_function(old, new, "m.f", ordAdd, ordRem, ordBoth)
    /\ pc' = "diff_done"
    /\ UNCHANGED <<old, new, breaking, resolverVars, matchVars, aliasVars, moreVars>>

DiffNext == DiffFunction

SpecDiff == DiffInit /\ [][DiffNext]_vars

-----------------------------------------------------------------------------
(* Properties of diff_function *)

DiffsOf(p) == SelectSeq(diffs, LAMBDA d : d.param = Some(p))

DiffsOfType(p, t) == SelectSeq(diffs, LAMBDA d : d.param = Some(p) /\ d.diff_type = t)

HasDefault(api, p) == \E i \in DOMAIN api.args : api.args[i].name = p /\ api.args[i].default # None

IndexIn(api, p) == CHOOSE i \in DOMAIN api.args : api.args[i].name = p

SharedParams == p_all(old) \cap p_all(new)

Sig_a_b == Function("f", <<Arg("a", None), Arg("b", None)>>)

Sig_a_b1 == Function("f", <<Arg("a", None), Arg("b", Some(<<"1">>))>>)

Sig_b_a == Function("f", <<Arg("b", None), Arg("a", None)>>)

Sig_a_b_c1 == Function("f", <<Arg("a", None), Arg("b", None), Arg("c", Some(<<"1">>))>>)

\* C1: a shared parameter that had a default in old and has none in new gets a
\* Default-Value-Removed diff and no Default-Value-Added diff; one that lacked a
\* default and now has one gets a Default-Value-Added diff; f(a, b=1) against
\* f(a, b) yields exactly one diff, Default-Value-Removed for b.
C1_DefaultDirection ==
    pc = "diff_done" =>
        /\ \A p \in SharedParams :
            /\ (HasDefault(old, p) /\ ~HasDefault(new, p)) =>
                  (Len(DiffsOfType(p, "ParamDefValRem")) = 1 /\ Len(DiffsOfType(p, "ParamDefValAdd")) = 0)
            /\ (~HasDefault(old, p) /\ HasDefault(new, p)) =>
                  Len(DiffsOfType(p, "ParamDefValAdd")) = 1
        /\ (old = Sig_a_b1 /\ new = Sig_a_b) =>
              (Len(diffs) = 1 /\ diffs[1].diff_type = "ParamDefValRem" /\ diffs[1].param = Some("b"))

\* C5: exactly one Parameter-Reordered diff for each shared parameter whose
\* position differs between old and new, none for a shared parameter whose
\* position is unchanged, whatever default-value diffs there are; f(a, b)
\* against f(b, a) yields exactly two diffs, Parameter-Reordered for a and for b.
C5_ReorderPerMovedParam ==
    pc = "diff_done" =>
        /\ \A p \in SharedParams :
              Len(DiffsOfType(p, "ParamReorder")) =
                  (IF IndexIn(old, p) # IndexIn(new, p) THEN 1 ELSE 0)
        /\ (old = Sig_a_b /\ new = Sig_b_a) =>
              /\ Len(diffs) = 2
              /\ {<<diffs[i].diff_type, diffs[i].param>> : i \in 1..2}
                    = {<<"ParamReorder", Some("a")>>, <<"ParamReorder", Some("b")>>}

C5_Witness ==
    /\ pc = "diff_done"
    /\ \E p \in SharedParams :
        /\ IndexIn(old, p) # IndexIn(new, p)
        /\ HasDefault(old, p) /\ ~HasDefault(new, p)
        /\ Len(DiffsOfType(p, "ParamReorder")) = 1
    /\ \E q \in SharedParams : IndexIn(old, q) = IndexIn(new, q)

\* C6: exactly one diff for each parameter name present on only one side:
\* Optional-Parameter-Added / Required-Parameter-Added for a name only in new
\* (with / without a default there), Optional- / Required-Parameter-Removed for a
\* name only in old; f(a, b) against f(a, b, c=1) yields exactly one diff in
\* total, Optional-Parameter-Added for c.
C6_OneSidedParams ==
    pc = "diff_done" =>
        /\ \A p \in p_all(new) \ p_all(old) :
              /\ Len(DiffsOf(p)) = 1
              /\ DiffsOf(p)[1].diff_type = (IF HasDefault(new, p) THEN "OptParamAdd" ELSE "ReqParamAdd")
        /\ \A p \in p_all(old) \ p_all(new) :
              /\ Len(DiffsOf(p)) = 1
              /\ DiffsOf(p)[1].diff_type = (IF HasDefault(old, p) THEN "OptParamRem" ELSE "ReqParamRem")
        /\ (old = Sig_a_b /\ new = Sig_a_b_c1) =>
              (Len(diffs) = 1 /\ diffs[1].diff_type = "OptParamAdd" /\ diffs[1].param = Some("c"))

C6_Witness ==
    /\ pc = "diff_done"
    /\ old = Sig_a_b /\ new = Sig_a_b_c1
    /\ Len(diffs) = 1

\* C7: diff_function returns the empty list whenever both signatures have the
\* same parameter names in the same order with the same default texts.
C7_IdenticalSignaturesNoDiff ==
    (pc = "diff_done" /\ old.args = new.args) => diffs = <<>>

C7_Witness ==
    /\ pc = "diff_done"
    /\ old.args = new.args
    /\ Len(old.args) = 3
    /\ \E i \in DOMAIN old.args : old.args[i].default = Some(<<"1">>)
    /\ \E i \in DOMAIN old.args : old.args[i].default = Some(<<"f", "(", "1", ")">>)
    /\ diffs = <<>>

-----------------------------------------------------------------------------
(* Entity model: Package, Alias, WildcardAlias.  A dotted name is the        *)
(* sequence of its segments; `id` stands for the identity of the Python      *)
(* object, which a deepcopy does not keep.                                  *)

Last(path) == path[Len(path)]

\* a parent reference, as far as it is followed: the parent's name and the
\* parent's own parent reference
ParentLink(name, parent) == [name |-> name, parent |-> parent]

Package(name, parent, children, entities, id) ==
    [kind |-> "Package", name |-> name, parent |-> parent,
     children |-> children, entities |-> entities, id |-> id]

Alias(name, full_alias, id) ==
    [kind |-> "Alias", name |-> name, full_alias |-> full_alias, id |-> id]

WildcardAlias(full_aliases, id) ==
    [kind |-> "WildcardAlias", name |-> "*", full_aliases |-> full_aliases, id |-> id]

\* a Function entity stored in a package
FunctionEntity(name, args, id) ==
    [kind |-> "Function", name |-> name, args |-> args, id |-> id]

\* x.replace("*", k) on a dotted name whose segments are names or "*"
ReplaceStar(path, k) == [i \in DOMAIN path |-> IF path[i] = "*" THEN k ELSE path[i]]

-----------------------------------------------------------------------------
(* Reference resolver: Package.__getitem__ and Package.get *)

Return(v) == [ok |-> TRUE, value |-> v]

\* raise KeyError(f"{key} <text>")
RaiseKeyError(key, text) == [ok |-> FALSE, key |-> key, text |-> text]

\* no deepcopy: the attributes are assigned to the stored object
WildcardCopy_InPlace(w, k) ==
    [kind |-> "WildcardAlias",
     name |-> IF w.name = "*" THEN k ELSE w.name,
     full_aliases |-> [i \in DOMAIN w.full_aliases |-> ReplaceStar(w.full_aliases[i], k)],
     id |-> w.id]

WildcardCopy_NoReplace(w, k) ==
    [kind |-> "WildcardAlias", name |-> w.name, full_aliases |-> w.full_aliases, id |-> <<"deepcopy">>]

\* the deepcopy of the package's WildcardAlias with "*" replaced by k
WildcardCopy(w, k) ==
    [kind |-> "WildcardAlias",
     name |-> IF w.name = "*" THEN k ELSE w.name,
     full_aliases |-> [i \in DOMAIN w.full_aliases |-> ReplaceStar(w.full_aliases[i], k)],
     id |-> <<"deepcopy">>]

\* the loop of __getitem__ over keys[1:], at the keys still to walk
RECURSIVE GetItemLoop(_, _, _)
GetItemLoop(res, rest, key) ==
    IF rest = <<>> THEN Return(res)
    ELSE LET k == Head(rest) IN
         IF res.kind = "Package"
         THEN IF k \in DOMAIN res.children
              THEN GetItemLoop(res.children[k], Tail(rest), key)
              ELSE IF k \in DOMAIN res.entities
              THEN GetItemLoop(res.entities[k], Tail(rest), key)
              ELSE IF "*" \in DOMAIN res.entities /\ Len(rest) = 1
              THEN GetItemLoop(WildcardCopy(res.entities["*"], k), Tail(rest), key)
              ELSE RaiseKeyError(key, "does not correspond to an API entity")
         ELSE RaiseKeyError(key, "does not correspond to an API entity")

\* Package.__getitem__
GetItem(self, key) ==
    IF key[1] # self.name
    THEN RaiseKeyError(key, "does not belong to this package")
    ELSE GetItemLoop(self, Tail(key), key)

IsAlias(e) == e.kind \in {"Alias", "WildcardAlias"}

Get_CopiesResult(self, key, top_levels, prev_aliases) ==
    LET r == GetItem(self, key) IN
    IF r.ok THEN Return([r.value EXCEPT !.id = <<"deepcopy">>]) ELSE r

\* Package.get, and the loop over the aliases of the entity it found
RECURSIVE Get(_, _, _, _), GetAliasLoop(_, _, _, _, _)
Get(self, key, top_levels, prev_aliases) ==
    LET r == GetItem(self, key) IN
    IF ~r.ok THEN r
    ELSE IF IsAlias(r.value)
    THEN GetAliasLoop(self, key,
                      IF r.value.kind = "Alias" THEN <<r.value.full_alias>> ELSE r.value.full_aliases,
                      top_levels, prev_aliases)
    ELSE r

GetAliasLoop(self, key, todo, top_levels, prev_aliases) ==
    IF todo = <<>>
    THEN RaiseKeyError(key, "cannot be resolved in this package")
    ELSE LET alias == Head(todo)
             top_level == alias[1]
         IN  IF alias \in Range(prev_aliases)
             THEN RaiseKeyError(key, "is a cyclic reference")
             ELSE IF top_level = self.name
             THEN LET r == Get(self, alias, top_levels, Append(prev_aliases, alias)) IN
                  IF r.ok THEN r
                  ELSE GetAliasLoop(self, key, Tail(todo), top_levels, prev_aliases)
             ELSE IF top_level \in DOMAIN top_levels
             THEN LET r == Get(top_levels[top_level], alias, top_levels, Append(prev_aliases, alias)) IN
                  IF r.ok THEN r
                  ELSE GetAliasLoop(self, key, Tail(todo), top_levels, prev_aliases)
             ELSE GetAliasLoop(self, key, Tail(todo), top_levels, prev_aliases)

-----------------------------------------------------------------------------
(* Inputs of the resolver: federations of two top-level packages P and Q,   *)
(* P with a sub-package m, holding at most MaxEntities entities             *)

MaxEntities == 3

LeafSlots == {<<"P", "A">>, <<"P", "B">>, <<"P", "m", "A">>, <<"Q", "A">>}

WildcardSlots == {<<"P", "*">>, <<"Q", "*">>}

AliasTargets == {<<"P", "A">>, <<"P", "B">>, <<"P", "m", "A">>, <<"Q", "A">>, <<"Q", "B">>}

WildcardLists ==
    {<<<<"P", "*">>>>, <<<<"Q", "*">>>>, <<<<"P", "*">>, <<"Q", "*">>>>, <<<<"Q", "*">>, <<"P", "*">>>>}

EntitiesAt(slot) ==
    IF slot \in WildcardSlots
    THEN {WildcardAlias(w, slot) : w \in WildcardLists}
    ELSE {FunctionEntity(Last(slot), <<>>, slot)}
         \cup {Alias(Last(slot), t, slot) : t \in AliasTargets}

\* assignments of an entity to at most MaxEntities slots
Layouts ==
    UNION {
        {f \in [S -> UNION {EntitiesAt(s) : s \in S}] : \A s \in S : f[s] \in EntitiesAt(s)}
        : S \in {T \in SUBSET (LeafSlots \cup WildcardSlots) : Cardinality(T) <= MaxEntities}}

\* the entities dict of the package at path `at`
EntitiesOf(f, at) ==
    [n \in {Last(s) : s \in {t \in DOMAIN f : SubSeq(t, 1, Len(t) - 1) = at}} |-> f[Append(at, n)]]

Federation(f) ==
    LET m == Package("m", Some(ParentLink("P", None)), <<>>, EntitiesOf(f, <<"P", "m">>), <<"P", "m">>)
        P == Package("P", None,
                     IF \E s \in DOMAIN f : Len(s) = 3 THEN [n \in {"m"} |-> m] ELSE <<>>,
                     EntitiesOf(f, <<"P">>), <<"P">>)
        Q == Package("Q", None, <<>>, EntitiesOf(f, <<"Q">>), <<"Q">>)
    IN  [t \in {"P", "Q"} |-> IF t = "P" THEN P ELSE Q]

\* (package the method is called on, key)
Lookups ==
    {<<"P", k>> : k \in {<<"P">>, <<"P", "A">>, <<"P", "B">>, <<"P", "m">>, <<"P", "m", "A">>,
                         <<"P", "A", "B">>, <<"Q", "A">>}}
    \cup {<<"Q", k>> : k \in {<<"Q">>, <<"Q", "A">>, <<"Q", "B">>}}

ResolverInit ==
    /\ DiffIdle
    /\ MatchIdle
    /\ AliasIdle
    /\ MoreIdle
    /\ pc = "idle"
    /\ apis \in {Federation(f) : f \in Layouts}
    /\ call_args = None
    /\ result = None

\* pkg[key]
PackageGetItem ==
    /\ pc = "idle"
    /\ \E l \in Lookups :
        /\ call_args' = Some([self |-> l[1], key |-> l[2]])
        /\ result' = Some(GetItem(apis[l[1]], l[2]))
    /\ pc' = "getitem_done"
    /\ UNCHANGED <<apis, diffVars, matchVars, aliasVars, moreVars>>

\* pkg.get(key) and pkg.get(key, top_levels=federation)
PackageGet ==
    /\ pc = "idle"
    /\ \E l \in Lookups, top_levels \in {<<>>, apis} :
        /\ call_args' = Some([self |-> l[1], key |-> l[2], top_levels |-> top_levels])
        /\ result' = Some(Get(apis[l[1]], l[2], top_levels, <<>>))
    /\ pc' = "get_done"
    /\ UNCHANGED <<apis, diffVars, matchVars, aliasVars, moreVars>>

\* the caller takes the result and is ready for the next lookup
ResolverReturn ==
    /\ pc \in {"getitem_done", "get_done"}
    /\ pc' = "idle"
    /\ call_args' = None
    /\ result' = None
    /\ UNCHANGED <<apis, diffVars, matchVars, aliasVars, moreVars>>

ResolverNext == PackageGetItem \/ PackageGet \/ ResolverReturn

SpecResolver == ResolverInit /\ [][ResolverNext]_vars

-----------------------------------------------------------------------------
(* Properties of the resolver *)

Called == apis[call_args[1].self]

Key == call_args[1].key

IsAliasTo(pkg, n, target) ==
    /\ n \in DOMAIN pkg.entities
    /\ pkg.entities[n].kind = "Alias"
    /\ pkg.entities[n].full_alias = target

\* A and B of package P are aliases of each other, and P is asked for one of them
CyclicPairLookup ==
    /\ pc = "get_done"
    /\ call_args[1].self = "P"
    /\ Key \in {<<"P", "A">>, <<"P", "B">>}
    /\ IsAliasTo(apis["P"], "A", <<"P", "B">>)
    /\ IsAliasTo(apis["P"], "B", <<"P", "A">>)

\* C2: Package.get of a name of a cyclic alias pair of one package fails, and the
\* error the caller receives is the KeyError "... is a cyclic reference".
C2_CyclicPairRaisesCyclic ==
    CyclicPairLookup => (~result[1].ok /\ result[1].text = "is a cyclic reference")

\* P holds nothing but WildcardAlias(["Q.*"]), Q holds a Function A, and P is
\* asked for P.A with the federation as top_levels
WildcardLookup ==
    /\ pc = "get_done"
    /\ call_args[1].self = "P"
    /\ Key = <<"P", "A">>
    /\ call_args[1].top_levels = apis
    /\ DOMAIN apis["P"].children = {}
    /\ DOMAIN apis["P"].entities = {"*"}
    /\ apis["P"].entities["*"].full_aliases = <<<<"Q", "*">>>>
    /\ "A" \in DOMAIN apis["Q"].entities
    /\ apis["Q"].entities["A"].kind = "Function"

\* C3: with P holding only WildcardAlias(["Q.*"]) and Q holding a concrete
\* entity foo, P.get("P.foo", federation) returns Q's entity foo.
C3_WildcardResolvesInQ ==
    WildcardLookup => result[1] = Return(apis["Q"].entities["A"])

C3_Witness == WildcardLookup /\ result[1].ok /\ result[1].value.id = <<"Q", "A">>

\* C8: whenever p[k] succeeds and yields an entity that is neither an Alias nor
\* a WildcardAlias, p.get(k, F) returns that same entity.
C8_GetAgreesWithGetItem ==
    (pc = "get_done" /\ GetItem(Called, Key).ok /\ ~IsAlias(GetItem(Called, Key).value))
        => result[1] = GetItem(Called, Key)

C8_Witness ==
    /\ pc = "get_done"
    /\ Key = <<"P", "m", "A">>
    /\ call_args[1].top_levels = apis
    /\ result[1].ok
    /\ result[1].value.kind = "Function"
    /\ result[1].value.id = <<"P", "m", "A">>

\* the invocations of get made while get(self, key, top_levels, prev_aliases)
\* runs, itself included
RECURSIVE GetCalls(_, _, _, _), LoopCalls(_, _, _, _)
GetCalls(self, key, top_levels, prev_aliases) ==
    LET r == GetItem(self, key) IN
    {[self |-> self, key |-> key, prev_aliases |-> prev_aliases]}
    \cup (IF r.ok /\ IsAlias(r.value)
          THEN LoopCalls(self,
                         IF r.value.kind = "Alias" THEN <<r.value.full_alias>> ELSE r.value.full_aliases,
                         top_levels, prev_aliases)
          ELSE {})

LoopCalls(self, todo, top_levels, prev_aliases) ==
    IF todo = <<>> THEN {}
    ELSE LET alias == Head(todo) IN
         IF alias \in Range(prev_aliases) THEN {}
         ELSE IF alias[1] = self.name \/ alias[1] \in DOMAIN top_levels
         THEN LET pkg == IF alias[1] = self.name THEN self ELSE top_levels[alias[1]] IN
              GetCalls(pkg, alias, top_levels, Append(prev_aliases, alias))
              \cup (IF Get(pkg, alias, top_levels, Append(prev_aliases, alias)).ok THEN {}
                    ELSE LoopCalls(self, Tail(todo), top_levels, prev_aliases))
         ELSE LoopCalls(self, Tail(todo), top_levels, prev_aliases)

\* the resolution of one synthesized target in the invocation c
Attempt(c, top_levels, target) ==
    IF target[1] = c.self.name
    THEN Get(c.self, target, top_levels, Append(c.prev_aliases, target))
    ELSE IF target[1] \in DOMAIN top_levels
    THEN Get(top_levels[target[1]], target, top_levels, Append(c.prev_aliases, target))
    ELSE RaiseKeyError(target, "cannot be resolved in this package")

\* the target resolves: it was not visited before and its resolution succeeds
Resolves(c, top_levels, target) ==
    target \notin Range(c.prev_aliases) /\ Attempt(c, top_levels, target).ok

\* the synthesized targets of the invocation c that resolve, by position;
\* none when c does not find a WildcardAlias
ResolvingTargets(c, top_levels) ==
    LET r == GetItem(c.self, c.key) IN
    IF r.ok /\ r.value.kind = "WildcardAlias"
    THEN {i \in DOMAIN r.value.full_aliases : Resolves(c, top_levels, r.value.full_aliases[i])}
    ELSE {}

\* C25: a lookup that finds a WildcardAlias returns the resolution of the
\* first synthesized target, in the listed order of the prefixes, that
\* resolves; and a lookup fails only if, wherever its resolution found a
\* WildcardAlias, at any depth, every synthesized target fails: a cycle or
\* failure on an earlier prefix does not keep a later prefix that resolves
\* from being tried
C25_FirstResolvingPrefixWins ==
    pc = "get_done" =>
        LET top_levels == call_args[1].top_levels
            outer == [self |-> Called, key |-> Key, prev_aliases |-> <<>>]
            hit == GetItem(Called, Key)
            good == ResolvingTargets(outer, top_levels)
        IN  /\ good # {} =>
                result[1] = Attempt(outer, top_levels,
                                    hit.value.full_aliases[CHOOSE i \in good : \A j \in good : i <= j])
            /\ ~result[1].ok =>
                \A c \in GetCalls(Called, Key, top_levels, <<>>) : ResolvingTargets(c, top_levels) = {}

-----------------------------------------------------------------------------
(* Signature matcher: Call.match *)

Call(name, args, kwargs, starargs, additional_kwargs) ==
    [name |-> name, args |-> args, kwargs |-> kwargs,
     starargs |-> starargs, additional_kwargs |-> additional_kwargs]

Names(as) == {as[i].name : i \in DOMAIN as}

\* the lists and flags the first loop of match collects
cand_posargs(f) == SelectSeq(f.args, LAMBDA arg : ~arg.kwarg /\ ~arg.vararg /\ ~arg.kw_only)

all_cand_kwargs(f) == Names(SelectSeq(f.args, LAMBDA arg : ~arg.kwarg /\ ~arg.vararg /\ ~arg.pos_only))

posonly_args(f) == Names(SelectSeq(f.args, LAMBDA arg : arg.pos_only))

allow_additional_posargs_AnyVariadic(f) == \E i \in DOMAIN f.args : f.args[i].vararg \/ f.args[i].kwarg

allow_additional_posargs(f) == \E i \in DOMAIN f.args : f.args[i].vararg

allow_additional_kwargs(f) == \E i \in DOMAIN f.args : f.args[i].kwarg

\* cand_posargs[:num_args]
FirstNames(as, n) == {as[i].name : i \in {j \in DOMAIN as : j <= n}}

cand_kwargs_KeepMatched(f, matched_args) == all_cand_kwargs(f)

\* cand_kwargs = cand_kwargs - matched_args
cand_kwargs(f, matched_args) == all_cand_kwargs(f) \ matched_args

\* the loop over self.kwargs, in the order kws the set is iterated: the first
\* keyword that is refused decides the message
RECURSIVE KeywordLoop(_, _, _)
KeywordLoop(kws, f, cands) ==
    IF kws = <<>> THEN None
    ELSE LET kw == Head(kws) IN
         IF kw \in posonly_args(f)
         THEN Some(<<kw, "is position-only argument">>)
         ELSE IF kw \notin cands /\ ~allow_additional_kwargs(f)
         THEN Some(<<kw, "is not allowed as keyword argument">>)
         ELSE KeywordLoop(Tail(kws), f, cands)

Unexcused_SpreadExcusesAll(self, arg) == ~self.additional_kwargs /\ ~self.starargs

\* whether a required parameter left unfilled makes the call a mismatch
Unexcused(self, arg) ==
    IF ~self.additional_kwargs /\ ~self.starargs THEN TRUE
    ELSE IF arg.kw_only /\ ~self.additional_kwargs THEN TRUE
    ELSE IF arg.pos_only /\ ~self.starargs THEN TRUE
    ELSE FALSE

\* the last loop of match, over func.args in declared order
RECURSIVE MissingLoop(_, _, _)
MissingLoop(self, as, matched_args) ==
    IF as = <<>> THEN None
    ELSE LET arg == Head(as) IN
         IF arg.kwarg \/ arg.vararg THEN MissingLoop(self, Tail(as), matched_args)
         ELSE IF arg.default = None /\ arg.name \notin matched_args /\ Unexcused(self, arg)
         THEN Some(<<arg.name, "missing one required argument">>)
         ELSE MissingLoop(self, Tail(as), matched_args)

\* Call.match; kws is the order in which self.kwargs is iterated
match(self, f, class_f, kws) ==
    LET num_args == IF ~class_f THEN self.args ELSE self.args + 1
        positional == FirstNames(cand_posargs(f), num_args)
        refused == KeywordLoop(kws, f, cand_kwargs(f, positional))
        missing == MissingLoop(self, f.args, positional \cup self.kwargs)
    IN  IF num_args > Len(cand_posargs(f)) /\ ~allow_additional_posargs(f)
        THEN <<FALSE, <<f.name, "takes up to", Len(cand_posargs(f)), num_args>>>>
        ELSE IF refused # None THEN <<FALSE, refused[1]>>
        ELSE IF missing # None THEN <<FALSE, missing[1]>>
        ELSE <<TRUE, <<>>>>

-----------------------------------------------------------------------------
(* Inputs of the matcher: signatures Python's grammar allows, of up to       *)
(* MaxParams parameters named a, b, c, ... in declared order                 *)

MaxParams == 3

MaxPosArgs == 3

MaxKwargs == 2

SigParamOrder == <<"a", "b", "c", "d", "e">>

\* keyword names a call may use: the parameters' names and a foreign name
KeywordNames == {"a", "b", "c", "k"}

ParamKinds == <<"pos_only", "standard", "vararg", "kw_only", "kwarg">>

KindRank(kd) == CHOOSE i \in DOMAIN ParamKinds : ParamKinds[i] = kd

ArgOfKind(name, kd, default) ==
    Argument(name, default, kd = "pos_only", kd = "kw_only", kd = "vararg", kd = "kwarg")

\* positional-only, then standard, then *args, then keyword-only, then **kwargs;
\* no default on a variadic parameter; no positional parameter without a
\* default after one with a default
ValidSignature(kinds, defs) ==
    /\ \A i, j \in DOMAIN kinds : i < j => KindRank(kinds[i]) <= KindRank(kinds[j])
    /\ \A i, j \in DOMAIN kinds : (i < j /\ kinds[i] = kinds[j]) => kinds[i] \notin {"vararg", "kwarg"}
    /\ \A i \in DOMAIN kinds : kinds[i] \in {"vararg", "kwarg"} => defs[i] = None
    /\ \A i, j \in DOMAIN kinds :
         (i < j /\ kinds[i] \in {"pos_only", "standard"} /\ kinds[j] \in {"pos_only", "standard"}
            /\ defs[i] # None) => defs[j] # None

Signatures ==
    UNION {
        {Function("f", [i \in 1..k |-> ArgOfKind(SigParamOrder[i], kinds[i], defs[i])]) :
            <<kinds, defs>> \in {kd \in [1..k -> Range(ParamKinds)] \X [1..k -> {None, Some(<<"1">>)}] :
                                   ValidSignature(kd[1], kd[2])}}
        : k \in 0..MaxParams}

Calls ==
    {Call("f", n, kws, star, akw) :
        n \in 0..MaxPosArgs,
        kws \in {K \in SUBSET KeywordNames : Cardinality(K) <= MaxKwargs},
        star \in BOOLEAN, akw \in BOOLEAN}

MatchInit ==
    /\ DiffIdle
    /\ ResolverIdle
    /\ AliasIdle
    /\ MoreIdle
    /\ pc = "match_input"
    /\ call \in Calls
    /\ func \in Signatures
    /\ class_func \in BOOLEAN
    /\ matched = None

CallMatch ==
    /\ pc = "match_input"
    /\ \E kws \in Perms(call.kwargs) : matched' = Some(match(call, func, class_func, kws))
    /\ pc' = "match_done"
    /\ UNCHANGED <<call, func, class_func, diffVars, resolverVars, aliasVars, moreVars>>

MatchNext == CallMatch

SpecMatch == MatchInit /\ [][MatchNext]_vars

-----------------------------------------------------------------------------
(* Properties of Call.match *)

IsMatch == matched[1][1]

Variadic(arg) == arg.vararg \/ arg.kwarg

\* the parameters a positional argument can fill, in declared order
PositionalSlots == SelectSeq(func.args, LAMBDA arg : ~Variadic(arg) /\ ~arg.kw_only)

\* the slot of the receiver of a bound method comes first
ReceiverSlots == IF class_func THEN 1 ELSE 0

\* names of the parameters the call's own positional arguments fill
FilledByCallArgs ==
    {PositionalSlots[i].name :
        i \in {j \in DOMAIN PositionalSlots : ReceiverSlots < j /\ j <= ReceiverSlots + call.args}}

FilledPositionally ==
    {PositionalSlots[i].name : i \in {j \in DOMAIN PositionalSlots : j <= ReceiverSlots + call.args}}

HasVarKeyword == \E i \in DOMAIN func.args : func.args[i].kwarg

HasVarPositional == \E i \in DOMAIN func.args : func.args[i].vararg

Def_f_a_b_c1 == Function("f", <<Arg("a", None), Arg("b", None), Arg("c", Some(<<"1">>))>>)

Def_f == Function("f", <<>>)

\* C9: a call that passes a keyword naming a parameter already filled by one of
\* its positional arguments, to a function without a variadic-keyword
\* parameter, is a Mismatch; f(*, *, a=*) against def f(a, b, c=1) is one.
C9_DuplicateKeywordMismatch ==
    pc = "match_done" =>
        /\ (call.kwargs \cap FilledByCallArgs # {} /\ ~HasVarKeyword) => ~IsMatch
        /\ (call = Call("f", 2, {"a"}, FALSE, FALSE) /\ func = Def_f_a_b_c1 /\ ~class_func) => ~IsMatch

C9_Witness ==
    /\ pc = "match_done"
    /\ call = Call("f", 2, {"a"}, FALSE, FALSE)
    /\ func = Def_f_a_b_c1
    /\ ~class_func
    /\ matched[1] = <<FALSE, <<"a", "is not allowed as keyword argument">>>>

\* the binding steps of match refuse nothing: the positional arguments fit and
\* every keyword is accepted
BindingSucceeds ==
    /\ (ReceiverSlots + call.args <= Len(PositionalSlots) \/ HasVarPositional)
    /\ \A kw \in call.kwargs :
        /\ \A i \in DOMAIN func.args : func.args[i].name = kw => ~func.args[i].pos_only
        /\ \/ HasVarKeyword
           \/ \E i \in DOMAIN func.args :
                /\ func.args[i].name = kw
                /\ ~Variadic(func.args[i])
                /\ kw \notin FilledPositionally

\* the spread of the call that excuses a required parameter left unfilled
ExcusedBySpread(arg) ==
    IF arg.kw_only THEN call.additional_kwargs
    ELSE IF arg.pos_only THEN call.starargs
    ELSE call.additional_kwargs \/ call.starargs

UnfilledRequired ==
    {i \in DOMAIN func.args :
        /\ ~Variadic(func.args[i])
        /\ func.args[i].default = None
        /\ func.args[i].name \notin FilledPositionally \cup call.kwargs}

\* C10: after binding, a non-variadic parameter without a default left unfilled
\* causes Mismatch unless a spread of the call excuses it: a standard parameter
\* by either spread, a keyword-only one only by a variadic-keyword spread, a
\* positional-only one only by a variadic-positional spread; so f(**) matches
\* def f(a, b, c=1) and def f().
C10_UnfilledRequiredExcusedBySpread ==
    pc = "match_done" =>
        /\ BindingSucceeds =>
             (IsMatch <=> \A i \in UnfilledRequired : ExcusedBySpread(func.args[i]))
        /\ (call = Call("f", 0, {}, FALSE, TRUE) /\ func \in {Def_f_a_b_c1, Def_f} /\ ~class_func)
             => IsMatch

\* the three kinds of parameter, each unfilled and excused only by its own spread
C10_Witness ==
    /\ pc = "match_done"
    /\ BindingSucceeds
    /\ IsMatch
    /\ call.additional_kwargs /\ call.starargs
    /\ \E i, j, k \in UnfilledRequired :
         func.args[i].pos_only /\ func.args[j].kw_only
            /\ ~func.args[k].pos_only /\ ~func.args[k].kw_only

\* the call passes more positional arguments, the receiver of a bound method
\* counted, than the function has parameters a positional argument can fill
TooManyPositional == ReceiverSlots + call.args > Len(PositionalSlots)

\* the result is the Mismatch of the positional count
RejectedForPositionalCount ==
    /\ ~IsMatch
    /\ Len(matched[1][2]) = 4
    /\ matched[1][2][2] = "takes up to"

\* C27: match returns Mismatch whenever the positional arguments of the call,
\* plus one for a bound method, outnumber the parameters that are neither
\* variadic nor keyword-only and the function has no variadic-positional
\* parameter; it rejects no other call for the positional count, and the
\* message gives the two numbers.
C27_TooManyPositionalMismatch ==
    pc = "match_done" =>
        /\ (TooManyPositional /\ ~HasVarPositional) <=> RejectedForPositionalCount
        /\ RejectedForPositionalCount =>
             matched[1][2] = <<func.name, "takes up to", Len(PositionalSlots), ReceiverSlots + call.args>>

\* a bound call of two arguments against def f(a, b, *, c=1): three for two slots
C27_Witness ==
    /\ pc = "match_done"
    /\ class_func
    /\ call = Call("f", 2, {}, FALSE, FALSE)
    /\ func = Function("f", <<Arg("a", None), Arg("b", None),
                              Argument("c", Some(<<"1">>), FALSE, TRUE, FALSE, FALSE)>>)
    /\ matched[1] = <<FALSE, <<"f", "takes up to", 2, 3>>>>

-----------------------------------------------------------------------------
(* Access-chain extractor: _resolve_aliases.  An access text is the sequence *)
(* of its characters; a dict is the sequence of its items in insertion order *)

\* the rest of s from its first c on (c included), empty if s holds no c
FromFirst(s, c) == SubSeq(s, Len(BeforeFirst(s, c)) + 1, Len(s))

\* s.split(c)[1], for an s that holds c
SecondPiece(s, c) == BeforeFirst(Tail(FromFirst(s, c)), c)

Keys(d) == {d[i].key : i \in DOMAIN d}

Lookup(d, k) == d[CHOOSE i \in DOMAIN d : d[i].key = k].lines

\* results[k].update(lines) on a defaultdict(set)
Update(d, k, lines) ==
    IF k \in Keys(d)
    THEN [i \in DOMAIN d |-> IF d[i].key = k THEN [key |-> k, lines |-> d[i].lines \cup lines] ELSE d[i]]
    ELSE Append(d, [key |-> k, lines |-> lines])

\* `if alias not in call`
AliasGuard(alias, access) == ~Contains(access, alias)

\* the two inner loops over aliases[...]: targets still to visit, the text each
\* target is put in front of; the new key and the line numbers are values
\* before results is updated
RECURSIVE SubstituteLoop(_, _, _, _)
SubstituteLoop(d, targets, access, rest) ==
    IF targets = <<>> THEN d
    ELSE LET alias == Head(targets) IN
         CHOOSE after \in
            {SubstituteLoop(next, Tail(targets), access, rest) :
                next \in {IF AliasGuard(alias, access) THEN Update(d, item.key, item.lines) ELSE d :
                            item \in {[key |-> alias \o rest, lines |-> Lookup(d, access)]}}} : TRUE

\* body of the loop over list(results.items()) for one item
ResolveItem(d, access, als) ==
    LET item0 == BeforeFirst(access, ".")
        suffix == FromFirst(access, ".")
    IN  IF item0 \in DOMAIN als
        THEN SubstituteLoop(d, als[item0], access, suffix)
        ELSE IF item0 # <<>> /\ item0[Len(item0)] = ")" /\ BeforeFirst(item0, "(") \in DOMAIN als
        THEN SubstituteLoop(d, als[BeforeFirst(item0, "(")], access,
                            <<"(">> \o SecondPiece(item0, "(") \o suffix)
        ELSE d

\* one round: the items results held when the round began, in order; the dict
\* after an item is a value before the next item is taken
RECURSIVE ResolveRound(_, _, _)
ResolveRound(d, todo, als) ==
    IF todo = <<>> THEN d
    ELSE CHOOSE after \in {ResolveRound(next, Tail(todo), als) :
                              next \in {ResolveItem(d, Head(todo), als)}} : TRUE

\* for _ in range(0, 5)
MaxRounds == 5

SameLength_Never(prev, d) == FALSE

\* `if prev_len == len(results)`, the test of the break
SameLength(prev, d) == prev = Len(d)

-----------------------------------------------------------------------------
(* Inputs of _resolve_aliases: what _SourceVisitor records for small clients *)

MaxCalls == 2

\* t, t.time(), t.f(), z(*), z(*)(*), d.h(), pd.read_csv(*).head(), a.f()
AccessTexts ==
    {<<"a", ".", "f", "(", ")">>,
     <<"t">>, <<"t", ".", "t", "i", "m", "e", "(", ")">>, <<"t", ".", "f", "(", ")">>, <<"z", "(", "*", ")">>,
     <<"z", "(", "*", ")", "(", "*", ")">>, <<"d", ".", "h", "(", ")">>,
     <<"p", "d", ".", "r", "e", "a", "d", "_", "c", "s", "v", "(", "*", ")", ".", "h", "e", "a", "d", "(", ")">>}

\* import time as t; from s import e as z; import pandas as pd;
\* d = t.f() and d = d.g() in either iteration order; a = a.b; a = b.c with b = a.d
AliasChoices ==
    [{<<"a">>} -> {<<<<"a", ".", "b">>>>}]
    \cup {[n \in {<<"a">>, <<"b">>} |-> IF n = <<"a">> THEN <<<<"b", ".", "c">>>> ELSE <<<<"a", ".", "d">>>>]}
    \cup [{<<"t">>} -> {<<<<"t", "i", "m", "e">>>>}]
    \cup [{<<"z">>} -> {<<<<"s", ".", "e">>>>}]
    \cup [{<<"p", "d">>} -> {<<<<"p", "a", "n", "d", "a", "s">>>>}]
    \cup [{<<"d">>} -> {<<<<"t", ".", "f", "(", ")">>>>, <<<<"d", ".", "g", "(", ")">>>>,
                    <<<<"t", ".", "f", "(", ")">>, <<"d", ".", "g", "(", ")">>>>, <<<<"d", ".", "g", "(", ")">>, <<"t", ".", "f", "(", ")">>>>}]

\* the union of functions with disjoint domains
Merge(fs) == [k \in UNION {DOMAIN f : f \in fs} |-> (CHOOSE f \in fs : k \in DOMAIN f)[k]]

AliasMaps ==
    {Merge(fs) : fs \in {F \in SUBSET AliasChoices :
                            \A f, g \in F : DOMAIN f \cap DOMAIN g # {} => f = g}}

\* the i-th recorded access was seen on line i
CallDicts ==
    UNION {
        {[i \in 1..k |-> [key |-> ks[i], lines |-> {i}]] :
            ks \in {s \in [1..k -> AccessTexts] : \A i, j \in 1..k : s[i] = s[j] => i = j}}
        : k \in 0..MaxCalls}

AliasInit ==
    /\ DiffIdle
    /\ ResolverIdle
    /\ MatchIdle
    /\ MoreIdle
    /\ pc = "resolve_loop"
    /\ calls \in CallDicts
    /\ aliases \in AliasMaps
    /\ results = calls
    /\ prev_len = -1
    /\ round = 0

\* one iteration of `for _ in range(0, 5)` that does not break
AliasRound ==
    /\ pc = "resolve_loop"
    /\ round < MaxRounds
    /\ ~SameLength(prev_len, results)
    /\ prev_len' = Len(results)
    /\ results' = ResolveRound(results, [i \in DOMAIN results |-> results[i].key], aliases)
    /\ round' = round + 1
    /\ UNCHANGED <<pc, calls, aliases, diffVars, resolverVars, matchVars, moreVars>>

\* the break, or the end of the range: return results
AliasReturn ==
    /\ pc = "resolve_loop"
    /\ (round = MaxRounds \/ SameLength(prev_len, results))
    /\ pc' = "resolve_done"
    /\ UNCHANGED <<calls, aliases, results, prev_len, round, diffVars, resolverVars, matchVars, moreVars>>

AliasNext == AliasRound \/ AliasReturn

SpecAlias == AliasInit /\ [][AliasNext]_vars

\* the accesses recorded before a call that is followed to its end
MaxRecorded == 1

\* before a call of _resolve_aliases
AliasCallInit ==
    /\ DiffIdle
    /\ ResolverIdle
    /\ MatchIdle
    /\ MoreIdle
    /\ pc = "resolve_call"
    /\ calls = <<>>
    /\ aliases = <<>>
    /\ results = <<>>
    /\ prev_len = -1
    /\ round = 0

\* the call on some arguments, up to the loop:
\* results = defaultdict(set, calls.items()); prev_len = -1
AliasCall ==
    /\ pc = "resolve_call"
    /\ calls' \in {d \in CallDicts : Len(d) <= MaxRecorded}
    /\ aliases' \in AliasMaps
    /\ results' = calls'
    /\ prev_len' = -1
    /\ round' = 0
    /\ pc' = "resolve_loop"
    /\ UNCHANGED <<diffVars, resolverVars, matchVars, moreVars>>

AliasCallNext == AliasCall \/ AliasRound \/ AliasReturn

\* the function is sequential code: a step that can be taken is taken
SpecAliasFair == AliasCallInit /\ [][AliasCallNext]_vars /\ WF_vars(AliasCallNext)

-----------------------------------------------------------------------------
(* Properties of _resolve_aliases *)

\* the name an access starts with: its text up to the first "." or "("
RootName(access) == BeforeFirst(BeforeFirst(access, "."), "(")

AfterRootName(access) == SubSeq(access, Len(RootName(access)) + 1, Len(access))

\* C4: for every recorded access whose root token is a tracked alias name, the
\* result holds the access with that root replaced by each recorded target
\* text of the alias, with at least the line numbers of the recorded access.
C4_AliasPropagation ==
    pc = "resolve_done" =>
        \A i \in DOMAIN calls :
            RootName(calls[i].key) \in DOMAIN aliases =>
                \A target \in Range(aliases[RootName(calls[i].key)]) :
                    /\ (target \o AfterRootName(calls[i].key)) \in Keys(results)
                    /\ calls[i].lines \subseteq Lookup(results, target \o AfterRootName(calls[i].key))

\* every recorded access is in results, with at least its line numbers
OriginalsKept ==
    \A i \in DOMAIN calls :
        calls[i].key \in Keys(results) /\ calls[i].lines \subseteq Lookup(results, calls[i].key)

\* C30: _resolve_aliases returns for every input; it runs at most 5 rounds;
\* a round is run only if it is the first or the round before it added an
\* access; no round removes a recorded access.  The inputs hold the
\* self-referential alias a = a.b and the mutual aliases a = b.c, b = a.d.
C30_TerminatesWithinFiveRounds ==
    /\ <>(pc = "resolve_done")
    /\ [](round <= 5 /\ OriginalsKept)
    /\ [][round' = round + 1 => (round = 0 \/ Len(results) > prev_len)]_vars

\* a.f() under a = a.b: the first round adds a.b.f(), the second adds nothing
\* and there is no third
C30_Witness ==
    /\ pc = "resolve_done"
    /\ <<"a">> \in DOMAIN aliases
    /\ aliases[<<"a">>] = <<<<"a", ".", "b">>>>
    /\ calls = <<[key |-> <<"a", ".", "f", "(", ")">>, lines |-> {1}]>>
    /\ round = 2
    /\ Keys(results) = {<<"a", ".", "f", "(", ")">>, <<"a", ".", "b", ".", "f", "(", ")">>}

-----------------------------------------------------------------------------
(* Package.get and Package.query, one statement at a time.  A frame of the  *)
(* call stack holds the arguments and locals of one invocation; `at` is the *)
(* statement it is at, `got` what the call it made returned or raised.      *)

Class(name, fields, static_fields, methods, classes, id) ==
    [kind |-> "Class", name |-> name, fields |-> fields, static_fields |-> static_fields,
     methods |-> methods, classes |-> classes, id |-> id]

\* Class.get_entity; the result None is returned, not raised
RECURSIVE get_entity(_, _)
get_entity(self, name) ==
    IF Len(name) = 1
    THEN LET members == self.methods \o self.fields \o self.static_fields
             hits == {i \in DOMAIN members : members[i].name = name[1]}
         IN  IF hits = {} THEN None
             ELSE members[CHOOSE i \in hits : \A j \in hits : i <= j]
    ELSE LET hits == {i \in DOMAIN self.classes : self.classes[i].name = name[1]} IN
         IF hits = {} THEN None
         ELSE get_entity(self.classes[CHOOSE i \in hits : \A j \in hits : i <= j], Tail(name))

Frame(fn, self, key, top_levels, prev_aliases) ==
    [fn |-> fn, self |-> self, key |-> key, top_levels |-> top_levels,
     prev_aliases |-> prev_aliases, todo |-> <<>>, next |-> <<>>, at |-> "entry", got |-> None]

\* the statement finished the invocation with outcome `out`
Finish(out) == [out |-> Some(out), frames |-> <<>>]

\* the statement left the invocation as `fr` and, with a callee, called it
Continue(fr) == [out |-> None, frames |-> <<fr>>]

Invoke(fr, callee) == [out |-> None, frames |-> <<fr, callee>>]

SeenBefore_Never(alias, prev_aliases) == FALSE

\* alias in prev_aliases
SeenBefore(alias, prev_aliases) == alias \in Range(prev_aliases)

\* get: res = self[key] and the choice of the aliases to follow
GetEntry(fr) ==
    LET r == GetItem(fr.self, fr.key) IN
    IF ~r.ok THEN Finish(r)
    ELSE IF IsAlias(r.value)
    THEN Continue([fr EXCEPT !.at = "loop",
                             !.todo = IF r.value.kind = "Alias"
                                      THEN <<r.value.full_alias>> ELSE r.value.full_aliases])
    ELSE Finish(r)

\* get: one iteration of `for alias in aliases`, up to the recursive call
GetLoop(fr) ==
    IF fr.todo = <<>>
    THEN Finish(RaiseKeyError(fr.key, "cannot be resolved in this package"))
    ELSE LET alias == Head(fr.todo)
             top_level == alias[1]
         IN  IF SeenBefore(alias, fr.prev_aliases)
             THEN Finish(RaiseKeyError(fr.key, "is a cyclic reference"))
             ELSE IF top_level = fr.self.name
             THEN Invoke([fr EXCEPT !.at = "called"],
                         Frame("get", fr.self, alias, fr.top_levels, Append(fr.prev_aliases, alias)))
             ELSE IF top_level \in DOMAIN fr.top_levels
             THEN Invoke([fr EXCEPT !.at = "called"],
                         Frame("get", fr.top_levels[top_level], alias, fr.top_levels,
                               Append(fr.prev_aliases, alias)))
             ELSE Continue([fr EXCEPT !.todo = Tail(fr.todo)])

\* get and query: the recursive call inside `try` came back
Resume(fr) ==
    IF fr.got[1].ok THEN Finish(fr.got[1])
    ELSE Continue([fr EXCEPT !.at = "loop", !.todo = Tail(fr.todo), !.got = None])

\* query: from the split of the key to the choice of what to do with `res`
QueryEntry(fr) ==
    LET items == fr.key
        self == fr.self
    IN
    IF items[1] # self.name THEN Finish(RaiseKeyError(fr.key, "is not in this package"))
    ELSE IF Len(items) = 1 THEN Finish(Return(self))
    ELSE
    LET first == items[2]
        rest == SubSeq(items, 3, Len(items))
        res == IF first \in DOMAIN self.children THEN Some(self.children[first])
               ELSE IF first \in DOMAIN self.entities THEN Some(self.entities[first])
               ELSE None
        wildcard == res = None /\ "*" \in DOMAIN self.entities
    IN
    IF res # None /\ res[1].kind = "Alias"
    THEN Continue([fr EXCEPT !.at = "loop", !.next = rest, !.todo = <<res[1].full_alias>>])
    ELSE IF wildcard
    THEN Continue([fr EXCEPT !.at = "loop", !.next = rest,
                             !.todo = [i \in DOMAIN self.entities["*"].full_aliases |->
                                          ReplaceStar(self.entities["*"].full_aliases[i], first)]])
    ELSE IF res = None THEN Finish(RaiseKeyError(fr.key, "is not in this package"))
    ELSE IF rest = <<>> THEN Finish(Return(res[1]))
    ELSE IF res[1].kind = "Class" THEN Finish(Return(get_entity(res[1], rest)))
    ELSE IF res[1].kind = "Package"
    THEN Invoke([fr EXCEPT !.at = "tail"],
                Frame("query", res[1], <<first>> \o rest, fr.top_levels, fr.prev_aliases))
    ELSE Finish(RaiseKeyError(fr.key, "is not in this package"))

\* query: one iteration of `for alias in aliases`, up to the recursive call
QueryLoop(fr) ==
    IF fr.todo = <<>>
    THEN Finish(RaiseKeyError(fr.key, "cannot be resolved in this package"))
    ELSE LET alias == Head(fr.todo)
             top_level == alias[1]
         IN  IF SeenBefore(alias, fr.prev_aliases)
             THEN Finish(RaiseKeyError(fr.key, "is a cyclic reference"))
             ELSE IF top_level \in DOMAIN fr.top_levels
             THEN Invoke([fr EXCEPT !.at = "called"],
                         Frame("query", fr.top_levels[top_level], alias \o fr.next, fr.top_levels,
                               Append(fr.prev_aliases, alias)))
             ELSE Continue([fr EXCEPT !.todo = Tail(fr.todo)])

\* query: `return res.query(...)` came back; its outcome is this one's
QueryTail(fr) == Finish(fr.got[1])

-----------------------------------------------------------------------------
(* Inputs and steps of the statement-level resolver.  The federations are   *)
(* those of the resolver above with at most MaxStepEntities entities, and   *)
(* those with a Class at P.B.  A call deeper than MaxDepth frames is not    *)
(* made.                                                                    *)

MaxStepEntities == 2

MaxDepth == 12

ClassSlot == <<"P", "B">>

ClassAtSlot ==
    Class("B", <<>>, <<>>, <<FunctionEntity("run", <<>>, <<"P", "B", "run">>)>>,
          <<Class("Inner", <<>>, <<>>, <<FunctionEntity("run", <<>>, <<"P", "B", "Inner", "run">>)>>, <<>>,
                  <<"P", "B", "Inner">>)>>,
          ClassSlot)

StepLayouts ==
    {g \in Layouts : Cardinality(DOMAIN g) <= MaxStepEntities} \cup
    {[s \in DOMAIN f \cup {ClassSlot} |-> IF s = ClassSlot THEN ClassAtSlot ELSE f[s]]
        : f \in {g \in Layouts : ClassSlot \notin DOMAIN g /\ Cardinality(DOMAIN g) < MaxStepEntities}}

StepLookups ==
    Lookups \cup {<<"P", k>> : k \in {<<"P", "B", "run">>, <<"P", "B", "Inner", "run">>}}

StepInit ==
    /\ DiffIdle
    /\ MatchIdle
    /\ AliasIdle
    /\ pc = "idle"
    /\ apis \in {Federation(f) : f \in StepLayouts}
    /\ call_args = None
    /\ result = None
    /\ stack = <<>>
    /\ BesidesStackIdle

\* the effect of one statement of the innermost frame on the stack and, when
\* the outermost invocation finishes, on the caller
Apply(sr) ==
    LET below == SubSeq(stack, 1, Len(stack) - 1) IN
    /\ Len(below) + Len(sr.frames) <= MaxDepth
    /\ IF sr.out = None
       THEN /\ stack' = below \o sr.frames
            /\ UNCHANGED <<pc, result>>
       ELSE IF below = <<>>
       THEN /\ stack' = <<>>
            /\ result' = sr.out
            /\ pc' = "resolve_done"
       ELSE /\ stack' = [below EXCEPT ![Len(below)].got = sr.out]
            /\ UNCHANGED <<pc, result>>
    /\ UNCHANGED <<apis, call_args, diffVars, matchVars, aliasVars, besidesStack>>

Top == stack[Len(stack)]

\* pkg.get(key) and pkg.get(key, top_levels=federation) is called
CallGet ==
    /\ pc = "idle"
    /\ \E l \in StepLookups, top_levels \in {<<>>, apis} :
        /\ call_args' = Some([fn |-> "get", self |-> l[1], key |-> l[2], top_levels |-> Some(top_levels)])
        /\ stack' = <<Frame("get", apis[l[1]], l[2], top_levels, <<>>)>>
    /\ pc' = "running"
    /\ UNCHANGED <<apis, result, diffVars, matchVars, aliasVars, besidesStack>>

\* pkg.query(key) and pkg.query(key, top_levels=federation) is called;
\* top_levels None becomes {self.name: self}
CallQuery ==
    /\ pc = "idle"
    /\ \E l \in StepLookups, top_levels \in {None, Some(apis)} :
        /\ call_args' = Some([fn |-> "query", self |-> l[1], key |-> l[2], top_levels |-> top_levels])
        /\ stack' = <<Frame("query", apis[l[1]], l[2],
                            IF top_levels = None THEN [n \in {l[1]} |-> apis[l[1]]] ELSE top_levels[1],
                            <<>>)>>
    /\ pc' = "running"
    /\ UNCHANGED <<apis, result, diffVars, matchVars, aliasVars, besidesStack>>

StepGetEntry ==
    /\ pc = "running" /\ Top.fn = "get" /\ Top.at = "entry"
    /\ Apply(GetEntry(Top))

StepGetLoop ==
    /\ pc = "running" /\ Top.fn = "get" /\ Top.at = "loop"
    /\ Apply(GetLoop(Top))

StepQueryEntry ==
    /\ pc = "running" /\ Top.fn = "query" /\ Top.at = "entry"
    /\ Apply(QueryEntry(Top))

StepQueryLoop ==
    /\ pc = "running" /\ Top.fn = "query" /\ Top.at = "loop"
    /\ Apply(QueryLoop(Top))

StepResume ==
    /\ pc = "running" /\ Top.at = "called" /\ Top.got # None
    /\ Apply(Resume(Top))

StepQueryTail ==
    /\ pc = "running" /\ Top.at = "tail" /\ Top.got # None
    /\ Apply(QueryTail(Top))

StepNext ==
    \/ CallGet
    \/ CallQuery
    \/ StepGetEntry
    \/ StepGetLoop
    \/ StepQueryEntry
    \/ StepQueryLoop
    \/ StepResume
    \/ StepQueryTail

\* a call, once made, runs to its end: the interpreter keeps executing it
SpecResolveSteps == StepInit /\ [][StepNext]_vars /\ WF_vars(StepNext)

-----------------------------------------------------------------------------
(* Properties of the statement-level resolver *)

-----------------------------------------------------------------------------
(* Access chains: what _SourceVisitor records, AccessChain and its text,     *)
(* get_api_access_chains.  Texts are sequences of characters.               *)

\* sep.join(pieces)
RECURSIVE Join(_, _)
Join(pieces, sep) ==
    IF pieces = <<>> THEN <<>>
    ELSE IF Len(pieces) = 1 THEN pieces[1]
    ELSE pieces[1] \o sep \o Join(Tail(pieces), sep)

\* s.split(c)
RECURSIVE Split(_, _)
Split(s, c) ==
    IF \A i \in DOMAIN s : s[i] # c THEN <<s>>
    ELSE <<BeforeFirst(s, c)>> \o Split(Tail(FromFirst(s, c)), c)

EndsWith(s, c) == s # <<>> /\ s[Len(s)] = c

Repeat(x, n) == [i \in 1..n |-> x]

DigitChars == <<"0", "1", "2", "3", "4", "5", "6", "7", "8", "9">>

\* the characters of the texts, in the order of their code points
CharOrder ==
    <<"(", ")", "*", ",", ".">> \o DigitChars \o <<":", "=", "^", "_">> \o
    <<"a", "b", "c", "d", "e", "f", "g", "h", "i", "j", "k", "l", "m",
      "n", "o", "p", "q", "r", "s", "t", "u", "v", "w", "x", "y", "z">>

Ord(c) == CHOOSE i \in DOMAIN CharOrder : CharOrder[i] = c

\* s < t on str
RECURSIVE StrLess(_, _)
StrLess(s, t) ==
    IF t = <<>> THEN FALSE
    ELSE IF s = <<>> THEN TRUE
    ELSE IF s[1] = t[1] THEN StrLess(Tail(s), Tail(t))
    ELSE Ord(s[1]) < Ord(t[1])

\* sorted(S) for a set of str
RECURSIVE SortedStrs(_)
SortedStrs(S) ==
    IF S = {} THEN <<>>
    ELSE LET least == CHOOSE x \in S : \A y \in S : x = y \/ StrLess(x, y)
         IN  <<least>> \o SortedStrs(S \ {least})

\* sorted(S) for a set of int
RECURSIVE SortedInts(_)
SortedInts(S) ==
    IF S = {} THEN <<>>
    ELSE LET least == CHOOSE x \in S : \A y \in S : x <= y
         IN  <<least>> \o SortedInts(S \ {least})

\* str(n) for an int n >= 0
RECURSIVE IntStr(_)
IntStr(n) ==
    IF n < 10 THEN <<DigitChars[n + 1]>>
    ELSE IntStr(n \div 10) \o <<DigitChars[(n % 10) + 1]>>

\* str.isidentifier on the characters of the texts
isidentifier(s) ==
    /\ s # <<>>
    /\ \A i \in DOMAIN s : Ord(s[i]) > Ord(".") /\ s[i] \notin {":", "=", "^"}
    /\ s[1] \notin Range(DigitChars)

\* _SourceVisitor._parse_call, given the text of node.func; a keyword of
\* node.keywords is its name, or None for **mapping
parse_call(func_text, node) ==
    LET named == SelectSeq(node.keywords, LAMBDA k : k # None)
        items == Repeat(<<"*">>, node.args)
                 \o (IF node.starred THEN <<<<"^", "^", "^">>>> ELSE <<>>)
                 \o [i \in DOMAIN named |-> named[i][1] \o <<"=", "*">>]
                 \o (IF \E i \in DOMAIN node.keywords : node.keywords[i] = None
                     THEN <<<<"*", "*">>>> ELSE <<>>)
    IN  func_text \o <<"(">> \o Join(items, <<",">>) \o <<")">>

\* _SourceVisitor._parse / _parse_attribute on root.attr1(...).attr2(...)...
RECURSIVE parse(_, _)
parse(root, links) ==
    IF links = <<>> THEN root
    ELSE LET l == links[Len(links)]
             attribute == parse(root, SubSeq(links, 1, Len(links) - 1)) \o <<".">> \o l.attr
         IN  IF l.call = None THEN attribute ELSE parse_call(attribute, l.call[1])

\* Call.__str__
CallStr(c) ==
    LET kws == SortedStrs(c.kwargs)
        items == Repeat(<<"*">>, c.args)
                 \o (IF c.starargs THEN <<<<".", ".", ".">>>> ELSE <<>>)
                 \o [i \in DOMAIN kws |-> kws[i] \o <<"=", "*">>]
                 \o (IF c.additional_kwargs THEN <<<<"*", "*">>>> ELSE <<>>)
    IN  c.name \o <<"(">> \o Join(items, <<",">>) \o <<")">>

\* an entry of AccessChain.chain: a str (call = None) or a Call
ItemStr(item) == IF item.call = None THEN item.name ELSE CallStr(item.call[1])

AccessChain(chain, line_nums, id) == [chain |-> chain, line_nums |-> line_nums, id |-> id]

\* AccessChain.chain_str
chain_str(c) == Join([i \in DOMAIN c.chain |-> ItemStr(c.chain[i])], <<".">>)

\* AccessChain.__str__
ChainText(c) ==
    LET nums == SortedInts(c.line_nums) IN
    chain_str(c) \o <<":">> \o Join([i \in DOMAIN nums |-> IntStr(nums[i])], <<",">>)

\* the loop of _from_str over the argument texts of one item
RECURSIVE FromArgStrs(_, _)
FromArgStrs(argstrs, c) ==
    IF argstrs = <<>> THEN c
    ELSE LET argstr == Head(argstrs) IN
         FromArgStrs(Tail(argstrs),
            IF argstr = <<>> THEN c
            ELSE IF Contains(argstr, <<"=">>)
            THEN [c EXCEPT !.kwargs = @ \cup {BeforeFirst(argstr, "=")}]
            ELSE IF Contains(argstr, <<"*", "*">>) THEN [c EXCEPT !.additional_kwargs = TRUE]
            ELSE IF Contains(argstr, <<"^", "^", "^">>) THEN [c EXCEPT !.starargs = TRUE]
            ELSE [c EXCEPT !.args = @ + 1])

\* one item of _from_str; None stands for the IndexError of split("(")[1]
FromItem(item) ==
    IF EndsWith(item, ")")
    THEN LET pieces == Split(item, "(") IN
         IF Len(pieces) < 2 THEN None
         ELSE Some([name |-> pieces[1],
                    call |-> Some(FromArgStrs(Split(SubSeq(pieces[2], 1, Len(pieces[2]) - 1), ","),
                                              Call(pieces[1], 0, {}, FALSE, FALSE)))])
    ELSE Some([name |-> item, call |-> None])

\* AccessChain._from_str; the new object is identified by the text it was made from
from_str(text, line_nums) ==
    LET items == Split(text, ".")
        made == [i \in DOMAIN items |-> FromItem(items[i])]
    IN  IF \E i \in DOMAIN made : made[i] = None THEN None
        ELSE Some(AccessChain([i \in DOMAIN made |-> made[i][1]], line_nums, text))

\* _resolve_aliases as a whole: the rounds until the dict stops growing
RECURSIVE ResolveLoop(_, _, _, _)
ResolveLoop(d, als, was_len, n) ==
    IF n = MaxRounds \/ was_len = Len(d) THEN d
    ELSE ResolveLoop(ResolveRound(d, [i \in DOMAIN d |-> d[i].key], als), als, Len(d), n + 1)

resolve_aliases(c, als) == ResolveLoop(c, als, -1, 0)

\* the module the client imports
ImportedModule == <<"o", "s">>

\* the name the import binds
BoundName(cl) == IF cl.asname = None THEN ImportedModule ELSE cl.asname[1]

\* visitor.calls after visit_Import of line 1
VisitImport(cl) == <<[key |-> BoundName(cl), lines |-> {1}]>>

\* visitor.aliases: `import os as o` records o -> {os}
VisitedAliases(cl) ==
    IF cl.asname = None THEN <<>> ELSE [n \in {cl.asname[1]} |-> <<ImportedModule>>]

\* visit_Call of an expression statement, then visit_Attribute of its func
VisitStatement(d, st, line) ==
    LET l == st.links[Len(st.links)]
        node_func == [st.links EXCEPT ![Len(st.links)].call = None]
    IN  IF l.call = None
        THEN Update(d, parse(st.root, st.links), {line})
        ELSE Update(Update(d, parse(st.root, st.links), {line}), parse(st.root, node_func), {line})

\* visitor.calls after the statements on lines 2, 3, ...
RECURSIVE VisitStatements(_, _, _)
VisitStatements(d, stmts, line) ==
    IF stmts = <<>> THEN d
    ELSE VisitStatements(VisitStatement(d, Head(stmts), line), Tail(stmts), line + 1)

\* the AccessChain objects added to api_access_chains; visitor.imports is
\* {ImportedModule}, module_filter is None or a list of module names
KeptChains(cl) ==
    LET all_chains == resolve_aliases(VisitStatements(VisitImport(cl), cl.stmts, 2), VisitedAliases(cl))
        made == [i \in DOMAIN all_chains |->
                    IF ~StartsWith(all_chains[i].key, ImportedModule) THEN None
                    ELSE IF cl.module_filter # None
                            /\ ~\E j \in DOMAIN cl.module_filter[1] :
                                    StartsWith(all_chains[i].key, cl.module_filter[1][j])
                    THEN None
                    ELSE LET c == from_str(all_chains[i].key, all_chains[i].lines) IN
                         IF c = None THEN None
                         ELSE IF \E j \in DOMAIN c[1].chain :
                                    c[1].chain[j].call = None /\ ~isidentifier(c[1].chain[j].name)
                         THEN None
                         ELSE c]
    IN  {made[i][1] : i \in {j \in DOMAIN made : made[j] # None}}

\* sorted(objs, key=str): the keys ascending; objects of equal key keep the
\* order in which the set hands them out, which is any order
RECURSIVE SortOutcomes(_, _)
SortOutcomes(objs, keys) ==
    IF keys = <<>> THEN {<<>>}
    ELSE {first \o rest : first \in Perms({c \in objs : ChainText(c) = Head(keys)}),
                          rest \in SortOutcomes(objs, Tail(keys))}

get_api_access_chains(cl) ==
    LET objs == KeptChains(cl) IN
    SortOutcomes(objs, SortedStrs({ChainText(c) : c \in objs}))

-----------------------------------------------------------------------------
(* Inputs of get_api_access_chains: `import os` or `import os as o` on line *)
(* 1, then at most MaxStatements expression statements                      *)

MaxStatements == 3

CallNode(args, starred, keywords) == [args |-> args, starred |-> starred, keywords |-> keywords]

Link(attr, node) == [attr |-> attr, call |-> node]

\* x.f(), x.f(0), x.f(a=1, b=2), x.f(b=1, a=2), x.g(*v), x.g(**m),
\* x.f(b=1, a=2).g() for the bound name x, zz.f() and osx.f()
Statements(x) ==
    {[root |-> x, links |-> <<Link(<<"f">>, Some(CallNode(0, FALSE, <<>>)))>>],
     [root |-> x, links |-> <<Link(<<"f">>, Some(CallNode(1, FALSE, <<>>)))>>],
     [root |-> x, links |-> <<Link(<<"f">>, Some(CallNode(0, FALSE, <<Some(<<"a">>), Some(<<"b">>)>>)))>>],
     [root |-> x, links |-> <<Link(<<"f">>, Some(CallNode(0, FALSE, <<Some(<<"b">>), Some(<<"a">>)>>)))>>],
     [root |-> x, links |-> <<Link(<<"g">>, Some(CallNode(0, TRUE, <<>>)))>>],
     [root |-> x, links |-> <<Link(<<"g">>, Some(CallNode(0, FALSE, <<None>>)))>>],
     [root |-> x, links |-> <<Link(<<"f">>, Some(CallNode(0, FALSE, <<Some(<<"b">>), Some(<<"a">>)>>))),
                              Link(<<"g">>, Some(CallNode(0, FALSE, <<>>)))>>],
     [root |-> <<"z", "z">>, links |-> <<Link(<<"f">>, Some(CallNode(0, FALSE, <<>>)))>>],
     [root |-> <<"o", "s", "x">>, links |-> <<Link(<<"f">>, Some(CallNode(0, FALSE, <<>>)))>>]}

\* module_filter: None or ["os"]
ModuleFilters == {None, Some(<<ImportedModule>>)}

Clients ==
    UNION {{[asname |-> a, module_filter |-> mf, stmts |-> ss] :
                mf \in ModuleFilters,
                ss \in UNION {[1..n -> Statements(IF a = None THEN ImportedModule ELSE a[1])]
                                : n \in 0..MaxStatements}}
            : a \in {None, Some(<<"o">>)}}

ChainInit ==
    /\ DiffIdle
    /\ ResolverIdle
    /\ MatchIdle
    /\ AliasIdle
    /\ BesidesChainIdle
    /\ pc = "chains_input"
    /\ client \in {Some(c) : c \in Clients}
    /\ chains = <<>>

GetApiAccessChains ==
    /\ pc = "chains_input"
    /\ chains' \in get_api_access_chains(client[1])
    /\ pc' = "chains_done"
    /\ UNCHANGED <<client, diffVars, resolverVars, matchVars, aliasVars, besidesChain>>

ChainNext == GetApiAccessChains

SpecChains == ChainInit /\ [][ChainNext]_vars

-----------------------------------------------------------------------------
(* Properties of get_api_access_chains *)

\* C12: the returned list holds no two chains of the same canonical chain
\* text, and is in ascending order of the chains' string form, for every
\* client, those that pass the same keywords in different orders included
C12_UniqueAndSorted ==
    pc = "chains_done" =>
        /\ \A i, j \in DOMAIN chains : chain_str(chains[i]) = chain_str(chains[j]) => i = j
        /\ \A i, j \in DOMAIN chains : i < j => ~StrLess(ChainText(chains[j]), ChainText(chains[i]))

\* C21: every returned chain is rooted at a tracked import: its leading
\* segment is the imported module (which is also the module name of the
\* filter when one is given); an access such as osx.f(), whose root only
\* begins with the characters of the import os, is not returned
C21_RootedAtTrackedImport ==
    pc = "chains_done" =>
        \A i \in DOMAIN chains : chains[i].chain[1].name = ImportedModule

-----------------------------------------------------------------------------
(* Static extraction: get_apis_from_dir and the module-level failed_modules. *)
(* A source unit is its parse outcome and its module-level statements; a    *)
(* path is its parts, relative ones taken from the common parent of the     *)
(* package directories.                                                     *)

DictKeys(d) == {d[i].key : i \in DOMAIN d}

DictGet(d, k) == d[CHOOSE i \in DOMAIN d : d[i].key = k].text

\* d[k] = v
DictSet(d, k, v) ==
    IF k \in DictKeys(d)
    THEN [i \in DOMAIN d |-> IF d[i].key = k THEN [key |-> k, text |-> v] ELSE d[i]]
    ELSE Append(d, [key |-> k, text |-> v])

\* del d[k]
DictDel(d, k) == SelectSeq(d, LAMBDA item : item.key # k)

\* os.path.abspath of the file of a unit
AbsPath(dir, unit) == [abs |-> TRUE, parts |-> <<dir>> \o unit.name]

\* os.path.relpath(path, base) with the suffix removed and os.sep replaced by "."
RelName(path, base) ==
    IF path.abs /\ path.parts[1] = base
    THEN [abs |-> FALSE, parts |-> Tail(path.parts)]
    ELSE [abs |-> FALSE, parts |-> <<"..">> \o path.parts]

\* the loop of _normalize_failed_modules over list(failed_modules.keys())
RECURSIVE NormalizeLoop(_, _, _)
NormalizeLoop(d, paths, base) ==
    IF paths = <<>> THEN d
    ELSE LET path == Head(paths)
             rel_path == RelName(path, base)
         IN  NormalizeLoop(DictDel(DictSet(d, rel_path, DictGet(d, path)), path), Tail(paths), base)

normalize_failed_modules(d, base) == NormalizeLoop(d, [i \in DOMAIN d |-> d[i].key], base)

Raise(exc) == [ok |-> FALSE, exc |-> exc]

Variable(name, value) == [kind |-> "Variable", name |-> name, value |-> value]

\* the loop of _convert_variables over the elements of a tuple target; the
\* value is a tuple of `elts` elements, or no tuple (elts = None)
RECURSIVE ConvertTupleLoop(_, _, _, _)
ConvertTupleLoop(targets, i, elts, made) ==
    IF i > Len(targets) THEN Return(made)
    ELSE IF targets[i].kind # "Name" THEN ConvertTupleLoop(targets, i + 1, elts, made)
    ELSE IF elts # None /\ i > elts[1] THEN Raise("IndexError")
    ELSE ConvertTupleLoop(targets, i + 1, elts,
                          Append(made, Variable(targets[i].id,
                                                IF elts = None THEN <<"value", i - 1>> ELSE <<"elt", i - 1>>)))

\* _convert_variables of an assignment to one tuple target
convert_variables(assign) == ConvertTupleLoop(assign.targets, 1, assign.elts, <<>>)

\* the child statements of a node: ast.iter_child_nodes, as far as statements go
Children(node) == IF "body" \in DOMAIN node THEN node.body ELSE <<>>

\* ast.walk below a list of nodes: the nodes, then their children, level by level
RECURSIVE Walk(_)
Walk(nodes) ==
    IF nodes = <<>> THEN <<>>
    ELSE nodes \o Walk(Join([i \in DOMAIN nodes |-> Children(nodes[i])], <<>>))

\* is_field of _convert_class_fields
is_field(target) == target.kind = "Attribute" /\ target.value = "self"

\* the loop of _convert_class_fields over the elements of a tuple target
RECURSIVE ConvertFieldsLoop(_, _, _, _)
ConvertFieldsLoop(targets, i, elts, made) ==
    IF i > Len(targets) THEN Return(made)
    ELSE IF ~is_field(targets[i]) THEN ConvertFieldsLoop(targets, i + 1, elts, made)
    ELSE IF elts # None /\ i > elts[1] THEN Raise("IndexError")
    ELSE ConvertFieldsLoop(targets, i + 1, elts,
                           Append(made, Variable(targets[i].attr,
                                                 IF elts = None THEN <<"value", i - 1>> ELSE <<"elt", i - 1>>)))

\* the loop of _convert_class over ast.walk(node) of the method __init__
RECURSIVE InitFieldsLoop(_, _)
InitFieldsLoop(nodes, made) ==
    IF nodes = <<>> THEN Return(made)
    ELSE IF Head(nodes).kind # "Assign" THEN InitFieldsLoop(Tail(nodes), made)
    ELSE LET r == ConvertFieldsLoop(Head(nodes).targets, 1, Head(nodes).elts, <<>>) IN
         IF r.ok THEN InitFieldsLoop(Tail(nodes), made \o r.value) ELSE r

\* _convert_class; got holds methods, fields, static_fields and classes so far
RECURSIVE ConvertClassLoop(_, _, _)
ConvertClassLoop(name, body, got) ==
    IF body = <<>>
    THEN Return(Class(name, got.fields, got.static_fields, got.methods, got.classes, name))
    ELSE LET node == Head(body) IN
         IF node.kind = "FunctionDef"
         THEN LET r == IF node.name = "__init__" THEN InitFieldsLoop(Walk(<<node>>), <<>>)
                       ELSE Return(<<>>)
              IN  IF r.ok
                  THEN ConvertClassLoop(name, Tail(body),
                           [got EXCEPT !.methods = Append(@, Function(node.name, <<>>)),
                                       !.fields = @ \o r.value])
                  ELSE r
         ELSE IF node.kind = "Assign"
         THEN LET r == convert_variables(node) IN
              IF r.ok
              THEN ConvertClassLoop(name, Tail(body), [got EXCEPT !.static_fields = @ \o r.value])
              ELSE r
         ELSE IF node.kind = "ClassDef"
         THEN LET r == ConvertClassLoop(node.name, node.body,
                                        [methods |-> <<>>, fields |-> <<>>,
                                         static_fields |-> <<>>, classes |-> <<>>])
              IN  IF r.ok
                  THEN ConvertClassLoop(name, Tail(body), [got EXCEPT !.classes = Append(@, r.value)])
                  ELSE r
         ELSE ConvertClassLoop(name, Tail(body), got)

convert_class(cls) ==
    ConvertClassLoop(cls.name, cls.body,
                     [methods |-> <<>>, fields |-> <<>>, static_fields |-> <<>>, classes |-> <<>>])

\* get_api_entities: _SourceVisitor over a list of statements.  It has
\* visit_FunctionDef, visit_ClassDef, visit_Assign and visit_AnnAssign, none
\* of which goes on to the children; every other node gets
\* NodeVisitor.generic_visit, which visits its children
RECURSIVE VisitModule(_, _)
VisitModule(stmts, made) ==
    IF stmts = <<>> THEN Return(made)
    ELSE LET st == Head(stmts) IN
         IF st.kind = "FunctionDef"
         THEN VisitModule(Tail(stmts), Append(made, Function(st.name, <<>>)))
         ELSE IF st.kind = "ClassDef"
         THEN LET r == convert_class(st) IN
              IF r.ok THEN VisitModule(Tail(stmts), Append(made, r.value)) ELSE r
         ELSE IF st.kind = "Assign"
         THEN LET r == convert_variables(st) IN
              IF r.ok THEN VisitModule(Tail(stmts), made \o r.value) ELSE r
         ELSE LET r == VisitModule(Children(st), made) IN
              IF r.ok THEN VisitModule(Tail(stmts), r.value) ELSE r

\* get_api_entities(tree)
get_api_entities(module) == VisitModule(module.body, <<>>)

\* isinstance(n, (ast.Import, ast.ImportFrom))
IsImport(n) == n.kind \in {"Import", "ImportFrom"}

\* the exceptions _get_apis_from_source catches
Caught == {"SyntaxError", "RecursionError"}

\* _get_apis_from_source: what it returns or raises, and failed_modules after it
get_apis_from_source(dir, unit, failed) ==
    LET r == IF unit.parses THEN VisitModule(SelectSeq(unit.stmts, LAMBDA n : ~IsImport(n)), <<>>)
             ELSE Raise("SyntaxError")
    IN
    IF r.ok THEN [out |-> Return(r.value \o SelectSeq(unit.stmts, IsImport)), failed |-> failed]
    ELSE IF r.exc \in Caught
    THEN [out |-> Return(<<>>), failed |-> DictSet(failed, AbsPath(dir, unit), r.exc)]
    ELSE [out |-> r, failed |-> failed]

-----------------------------------------------------------------------------
(* Inputs and steps of static extraction: two callers of get_apis_from_dir,  *)
(* each on its own directory of at most MaxUnits source units, each reading *)
(* static.failed_modules once its call has returned                         *)

MaxUnits == 2

RunIds == {1, 2}

DirOf(r) == IF r = 1 THEN "d1" ELSE "d2"

UnitNames == <<<<"a">>, <<"sub", "b">>, <<"c">>, <<"sub", "d">>>>

Name(id) == [kind |-> "Name", id |-> id]

Starred(id) == [kind |-> "Starred", id |-> id]

\* def ok(): pass  |  def broken(:  |  x, y = 1, 2  |  *x, y, z = 0, *r
UnitSources ==
    {[parses |-> TRUE, stmts |-> <<[kind |-> "FunctionDef", name |-> "ok"]>>],
     [parses |-> FALSE, stmts |-> <<>>],
     [parses |-> TRUE, stmts |-> <<[kind |-> "Assign", targets |-> <<Name("x"), Name("y")>>, elts |-> Some(2)]>>],
     [parses |-> TRUE, stmts |-> <<[kind |-> "Assign", targets |-> <<Starred("x"), Name("y"), Name("z")>>,
                                    elts |-> Some(2)]>>]}

UnitLists ==
    UNION {{[i \in 1..n |-> [name |-> UnitNames[i], parses |-> src[i].parses, stmts |-> src[i].stmts]]
                : src \in [1..n -> UnitSources]}
            : n \in 0..(IF MaxUnits < Len(UnitNames) THEN MaxUnits ELSE Len(UnitNames))}

Run(dir, units) ==
    [dir |-> dir, units |-> units, pc |-> "start", i |-> 1, package |-> <<>>,
     resolved |-> FALSE, returned |-> None, diagnostics |-> None]

StaticInit ==
    /\ DiffIdle
    /\ ResolverIdle
    /\ MatchIdle
    /\ AliasIdle
    /\ BesidesStaticIdle
    /\ pc = "extract"
    /\ failed_modules = <<>>
    /\ runs \in {[r \in RunIds |-> Run(DirOf(r), IF r = 1 THEN u1 ELSE u2)] : u1 \in UnitLists, u2 \in UnitLists}

StaticUnchanged == UNCHANGED <<pc, diffVars, resolverVars, matchVars, aliasVars, besidesStatic>>

\* get_apis_from_dir: failed_modules = {}
Begin(r) ==
    /\ runs[r].pc = "start"
    /\ failed_modules' = <<>>
    /\ runs' = [runs EXCEPT ![r].pc = "units"]
    /\ StaticUnchanged

\* _get_apis: the next entry, through _get_apis_from_source; an exception it
\* lets through ends get_apis_from_dir
ExtractUnit(r) ==
    /\ runs[r].pc = "units"
    /\ runs[r].i <= Len(runs[r].units)
    /\ LET unit == runs[r].units[runs[r].i]
           done == get_apis_from_source(runs[r].dir, unit, failed_modules)
       IN  /\ failed_modules' = done.failed
           /\ runs' = IF done.out.ok
                      THEN [runs EXCEPT ![r].i = @ + 1,
                                        ![r].package = Append(@, [name |-> unit.name, entities |-> done.out.value])]
                      ELSE [runs EXCEPT ![r].pc = "raised"]
    /\ StaticUnchanged

\* _resolve_import_from(package), after the last entry
ResolveImports(r) ==
    /\ runs[r].pc = "units"
    /\ runs[r].i > Len(runs[r].units)
    /\ runs' = [runs EXCEPT ![r].pc = "normalize", ![r].resolved = TRUE]
    /\ UNCHANGED failed_modules
    /\ StaticUnchanged

\* _normalize_failed_modules(dir); return package
NormalizeAndReturn(r) ==
    /\ runs[r].pc = "normalize"
    /\ failed_modules' = normalize_failed_modules(failed_modules, runs[r].dir)
    /\ runs' = [runs EXCEPT ![r].pc = "returned", ![r].returned = Some(runs[r].package)]
    /\ StaticUnchanged

\* the caller reads the diagnostics of its extraction: deepcopy(static.failed_modules)
ReadFailedModules(r) ==
    /\ runs[r].pc = "returned"
    /\ runs' = [runs EXCEPT ![r].pc = "done", ![r].diagnostics = Some(failed_modules)]
    /\ UNCHANGED failed_modules
    /\ StaticUnchanged

StaticNext ==
    \E r \in RunIds :
        \/ Begin(r)
        \/ ExtractUnit(r)
        \/ ResolveImports(r)
        \/ NormalizeAndReturn(r)
        \/ ReadFailedModules(r)

SpecStatic == StaticInit /\ [][StaticNext]_vars

-----------------------------------------------------------------------------
(* Properties of static extraction *)

\* the units of run r whose extraction raises
FailingUnits(r) ==
    {i \in DOMAIN runs[r].units :
        ~runs[r].units[i].parses \/ ~VisitModule(runs[r].units[i].stmts, <<>>).ok}

\* the key under which the diagnostics name a unit: its path below the directory
UnitKey(r, i) == [abs |-> FALSE, parts |-> runs[r].units[i].name]

\* C13: whatever the interleaving of two extractions, the diagnostics read
\* for an extraction hold exactly the units that failed in that extraction
C13_DiagnosticsPerExtraction ==
    \A r \in RunIds :
        runs[r].pc = "done" =>
            DictKeys(runs[r].diagnostics[1]) = {UnitKey(r, i) : i \in FailingUnits(r)}

\* C15: an extraction that runs alone, with a unit whose extraction raises,
\* does not end by that exception; once it has returned, each failing unit is
\* in the diagnostics under its path with the error text and has no entities
\* in the returned tree, and every other unit is in the tree
C15_UnitFailuresAreCaught ==
    \A r \in RunIds :
        (\A q \in RunIds \ {r} : runs[q].pc = "start") =>
            /\ runs[r].pc # "raised"
            /\ runs[r].pc = "done" =>
                /\ \A i \in FailingUnits(r) :
                    /\ UnitKey(r, i) \in DictKeys(runs[r].diagnostics[1])
                    /\ DictGet(runs[r].diagnostics[1], UnitKey(r, i)) \in Caught
                    /\ runs[r].returned[1][i].entities = <<>>
                /\ \A i \in DOMAIN runs[r].units :
                    runs[r].returned[1][i].name = runs[r].units[i].name

-----------------------------------------------------------------------------
(* Diff engine over packages: diff_class, diff_entity, diff_pkg.  A loop    *)
(* over a Python set runs in any order, so each function is modelled by the *)
(* set of lists it can return; an exception that leaves the function makes  *)
(* this set empty.                                                          *)

is_breaking_NoReorder(d) == d.diff_type \notin {"ClsAdd", "FuncAdd", "VarAdd", "ParamReorder"}

\* Diff.is_breaking: membership in the list of the property
is_breaking(d) ==
    LET kinds == <<"ClsRem", "FuncRem", "VarRem", "ReqParamAdd", "ReqParamRem", "OptParamAdd",
                   "OptParamRem", "ParamReorder", "ParamDefValAdd", "ParamDefValRem",
                   "ParamDefValChg">>
    IN  \E i \in DOMAIN kinds : kinds[i] = d.diff_type

\* the lists made by running the parts of a sequence one after the other
RECURSIVE Concats(_)
Concats(parts) ==
    IF parts = <<>> THEN {<<>>}
    ELSE {h \o t : h \in Head(parts), t \in Concats(Tail(parts))}

\* for x in <list>: diffs.extend(Body(x))
ForEachListed(xs, Body(_)) == Concats([i \in DOMAIN xs |-> Body(xs[i])])

\* for x in <set>: diffs.extend(Body(x))
ForEach(S, Body(_)) == UNION {ForEachListed(ord, Body) : ord \in Perms(S)}

\* diff_function under every order of its three loops
DiffFunctionOutcomes(o, n, full_name) ==
    {diff_function(o, n, full_name, ordAdd, ordRem, ordBoth) :
        ordAdd \in Perms(p_all(n) \ p_all(o)),
        ordRem \in Perms(p_all(o) \ p_all(n)),
        ordBoth \in Perms(p_all(o) \cap p_all(n))}

\* the keys of {v.name: v for v in c.fields + c.static_fields}
ClassVars(c) == {v.name : v \in Range(c.fields \o c.static_fields)}

\* {f.name: f for f in c.methods}: a later method of the same name wins
ClassFuncs(c) ==
    [f_name \in {m.name : m \in Range(c.methods)} |->
        c.methods[CHOOSE i \in DOMAIN c.methods :
            /\ c.methods[i].name = f_name
            /\ \A j \in DOMAIN c.methods : c.methods[j].name = f_name => j <= i]]

EntityDiff(diff_type, api_name) == Diff(diff_type, api_name, None, None, None)

diff_class(o, n, full_name) ==
    Concats(<<
        ForEach(ClassVars(o) \ ClassVars(n),
                LAMBDA v_name : {<<EntityDiff("VarRem", Append(full_name, v_name))>>}),
        ForEach(ClassVars(n) \ ClassVars(o),
                LAMBDA v_name : {<<EntityDiff("VarAdd", Append(full_name, v_name))>>}),
        ForEach(DOMAIN ClassFuncs(o) \ DOMAIN ClassFuncs(n),
                LAMBDA f_name : {<<EntityDiff("FuncRem", Append(full_name, f_name))>>}),
        ForEach(DOMAIN ClassFuncs(n) \ DOMAIN ClassFuncs(o),
                LAMBDA f_name : {<<EntityDiff("FuncAdd", Append(full_name, f_name))>>}),
        ForEach(DOMAIN ClassFuncs(n) \cap DOMAIN ClassFuncs(o),
                LAMBDA f_name :
                    LET old_func == ClassFuncs(o)[f_name]
                        new_func == ClassFuncs(n)[f_name]
                    IN  IF old_func.kind # "Function" \/ new_func.kind # "Function"
                        THEN {<<>>}
                        ELSE DiffFunctionOutcomes(old_func, new_func, Append(full_name, f_name)))
    >>)

\* diff_entity; o and n are None or Some(entity).  Return(lists) or Raise
diff_entity(o, n, full_name) ==
    IF (o # None /\ IsAlias(o[1])) \/ (n # None /\ IsAlias(n[1]))
    THEN Return({<<>>})
    ELSE IF o = None
    THEN IF n[1].kind = "Class" THEN Return({<<EntityDiff("ClsAdd", full_name)>>})
         ELSE IF n[1].kind = "Function" THEN Return({<<EntityDiff("FuncAdd", full_name)>>})
         ELSE IF n[1].kind = "Variable" THEN Return({<<EntityDiff("VarAdd", full_name)>>})
         ELSE Raise("ValueError")
    ELSE IF n = None
    THEN IF o[1].kind = "Class" THEN Return({<<EntityDiff("ClsRem", full_name)>>})
         ELSE IF o[1].kind = "Function" THEN Return({<<EntityDiff("FuncRem", full_name)>>})
         ELSE IF o[1].kind = "Variable" THEN Return({<<EntityDiff("VarRem", full_name)>>})
         ELSE Raise("ValueError")
    ELSE IF o[1].kind # n[1].kind THEN Raise("ValueError")
    ELSE IF o[1].kind = "Function" THEN Return(DiffFunctionOutcomes(o[1], n[1], full_name))
    ELSE IF o[1].kind = "Class" THEN Return(diff_class(o[1], n[1], full_name))
    ELSE Return({<<>>})

\* Package.full_name: the loop over the parent references
RECURSIVE FullNameLoop(_, _)
FullNameLoop(name, curr) ==
    IF curr = None THEN name
    ELSE FullNameLoop(<<curr[1].name>> \o name, curr[1].parent)

full_name_OwnNameOnly(self) == <<self.name>>

full_name(self) == FullNameLoop(<<self.name>>, self.parent)

\* the order in which the names were inserted into the dicts of the inputs
InsertionOrder ==
    <<"C", "f", "g", "h", "k", "o", "a.b.c", "v", "*", "__init__", "m", "n", "s", "P", "Q">>

\* the keys of a dict in iteration order
DictOrder(d) == SelectSeq(InsertionOrder, LAMBDA k : k \in DOMAIN d)

\* Package.keys(leaf_only=True)
RECURSIVE keys(_)
keys(self) ==
       [i \in DOMAIN DictOrder(self.entities) |->
            Append(full_name(self), DictOrder(self.entities)[i])]
    \o Flatten([i \in DOMAIN DictOrder(self.children) |->
            keys(self.children[DictOrder(self.children)[i]])])

\* try: diffs.extend(diff_entity(...)) except (KeyError, ValueError): continue
\* for a key of one side only
OneSidedKey(pkg, key, is_old) ==
    LET e == GetItem(pkg, key) IN
    IF ~e.ok THEN {<<>>}
    ELSE LET d == IF is_old THEN diff_entity(Some(e.value), None, key)
                  ELSE diff_entity(None, Some(e.value), key)
         IN  IF d.ok THEN d.value ELSE {<<>>}

\* the body of the loop over old_keys & new_keys: only KeyError is caught
CommonKey(old_pkg, new_pkg, key) ==
    LET eo == GetItem(old_pkg, key)
        en == GetItem(new_pkg, key)
    IN  IF ~eo.ok \/ ~en.ok THEN {<<>>}
        ELSE IF eo.value.kind # en.value.kind THEN {<<>>}
        ELSE LET d == diff_entity(Some(eo.value), Some(en.value), key) IN
             IF d.ok THEN d.value ELSE {}

\* diff_pkg: the lists it can return
diff_pkg(old_apis, new_apis) ==
    Concats(<<
        ForEach(DOMAIN old_apis \ DOMAIN new_apis,
                LAMBDA mod_name :
                    ForEachListed(keys(old_apis[mod_name]),
                                  LAMBDA key : OneSidedKey(old_apis[mod_name], key, TRUE))),
        ForEach(DOMAIN new_apis \ DOMAIN old_apis,
                LAMBDA mod_name :
                    ForEachListed(keys(new_apis[mod_name]),
                                  LAMBDA key : OneSidedKey(new_apis[mod_name], key, FALSE))),
        ForEach(DOMAIN old_apis \cap DOMAIN new_apis,
                LAMBDA mod_name :
                    LET old_keys == Range(keys(old_apis[mod_name]))
                        new_keys == Range(keys(new_apis[mod_name]))
                    IN  Concats(<<
                            ForEach(old_keys \ new_keys,
                                    LAMBDA key : OneSidedKey(old_apis[mod_name], key, TRUE)),
                            ForEach(new_keys \ old_keys,
                                    LAMBDA key : OneSidedKey(new_apis[mod_name], key, FALSE)),
                            ForEach(old_keys \cap new_keys,
                                    LAMBDA key : CommonKey(old_apis[mod_name], new_apis[mod_name], key))
                        >>))
    >>)

-----------------------------------------------------------------------------
(* Inputs of diff_pkg: two versions of a federation.  Package P is in both  *)
(* versions, its sub-package m and package Q in either; every name holds    *)
(* one of a few entities or is absent.                                      *)

Lit(c) == Some(<<c>>)

FVersions ==
    {<<Arg("a", None)>>,
     <<Arg("a", None), Arg("b", None)>>,
     <<Arg("b", None), Arg("a", None)>>,
     <<Arg("a", None), Arg("b", Lit("1"))>>,
     <<Arg("a", None), Arg("b", Lit("2"))>>}

CVersions ==
    {Class("C", <<Variable("x", <<"0">>)>>, <<>>,
           <<FunctionEntity("run", <<Arg("self", None)>>, <<"P", "C", "run">>)>>, <<>>, <<"P", "C">>),
     Class("C", <<Variable("y", <<"0">>)>>, <<Variable("z", <<"0">>)>>,
           <<FunctionEntity("run", <<Arg("self", None), Arg("a", Lit("1"))>>, <<"P", "C", "run">>),
             FunctionEntity("stop", <<Arg("self", None)>>, <<"P", "C", "stop">>)>>,
           <<>>, <<"P", "C">>)}

\* the entities a name of P can hold
Holdings(n) ==
    IF n = "f"
    THEN {FunctionEntity("f", as, <<"P", "f">>) : as \in FVersions}
         \cup {Alias("f", <<"Q", "g">>, <<"P", "f">>)}
    ELSE IF n = "C" THEN CVersions
    ELSE {Variable("v", <<"0">>), FunctionEntity("v", <<>>, <<"P", "v">>)}

EntityDicts ==
    UNION {{e \in [S -> UNION {Holdings(n) : n \in S}] : \A n \in S : e[n] \in Holdings(n)}
           : S \in SUBSET {"f", "C", "v"}}

Pm == Package("m", Some(ParentLink("P", None)), <<>>,
              [n \in {"k"} |-> FunctionEntity("k", <<>>, <<"P", "m", "k">>)], <<"P", "m">>)

Qg == Package("Q", None, <<>>,
              [n \in {"g", "h"} |-> FunctionEntity(n, <<>>, <<"Q", n>>)], <<"Q">>)

Versions ==
    {[t \in {"P"} \cup (IF withQ THEN {"Q"} ELSE {}) |->
        IF t = "Q" THEN Qg
        ELSE Package("P", None, IF withM THEN [n \in {"m"} |-> Pm] ELSE <<>>, e, <<"P">>)]
     : e \in EntityDicts, withM \in BOOLEAN, withQ \in BOOLEAN}

DiffPkgInit ==
    /\ ResolverIdle
    /\ MatchIdle
    /\ AliasIdle
    /\ MoreIdle
    /\ pc = "pkg_input"
    /\ old \in Versions
    /\ new \in Versions
    /\ diffs = <<>>
    /\ breaking = <<>>

\* diffs = diff_pkg(apis1, apis2)
DiffPkg ==
    /\ pc = "pkg_input"
    /\ diffs' \in diff_pkg(old, new)
    /\ pc' = "pkg_done"
    /\ UNCHANGED <<old, new, breaking, resolverVars, matchVars, aliasVars, moreVars>>

\* generate_release_notes reads is_breaking of every Diff of the list
ReadIsBreaking ==
    /\ pc = "pkg_done"
    /\ breaking' = [i \in DOMAIN diffs |-> is_breaking(diffs[i])]
    /\ pc' = "breaking_done"
    /\ UNCHANGED <<old, new, diffs, resolverVars, matchVars, aliasVars, moreVars>>

DiffPkgNext == DiffPkg \/ ReadIsBreaking

SpecDiffPkg == DiffPkgInit /\ [][DiffPkgNext]_vars

-----------------------------------------------------------------------------
(* Properties of diff_pkg and of Diff.is_breaking *)

\* C14: the diff list returned by diff_pkg is a function of its two inputs:
\* whatever list the call returned, it is the only list the call can return
C14_DiffOrderDeterministic ==
    pc = "pkg_done" => \A other \in diff_pkg(old, new) : other = diffs

AdditionKinds == {"ClsAdd", "FuncAdd", "VarAdd"}

BreakingKinds ==
    {"ClsRem", "FuncRem", "VarRem", "ReqParamAdd", "ReqParamRem", "OptParamAdd", "OptParamRem",
     "ParamReorder", "ParamDefValAdd", "ParamDefValRem", "ParamDefValChg"}

-----------------------------------------------------------------------------
(* Package tree of a directory and the resolution of its import statements: *)
(* _get_entry_points, _get_apis, _resolve_import_from.  A directory is its   *)
(* path and its entries in listing order; an entry is a sub-directory or a   *)
(* source file, named without its suffix.                                    *)

\* ast.alias
ImportName(name, asname) == [name |-> name, asname |-> asname]

\* import <names>
Import(names) == [kind |-> "Import", names |-> names]

\* from <level dots><module> import <names>
ImportFrom(module, names, level) ==
    [kind |-> "ImportFrom", module |-> module, names |-> names, level |-> level]

Directory(path, entries) == [kind |-> "dir", name |-> Last(path), path |-> path, entries |-> entries]

SourceFile(path, stmts) == [kind |-> "file", name |-> Last(path), path |-> path, stmts |-> stmts]

\* os.path.isfile(os.path.join(dir, "__init__.py"))
HasInit(d) == \E i \in DOMAIN d.entries : d.entries[i].kind = "file" /\ d.entries[i].name = "__init__"

\* _get_entry_points: the source files and the sub-directories with an __init__.py
get_entry_points(d) ==
    LET kept == SelectSeq(d.entries, LAMBDA child : child.kind = "file" \/ HasInit(child))
    IN  [i \in DOMAIN kept |-> kept[i].name]

\* the entry of this name in the directory
EntryAt(d, entry) == d.entries[CHOOSE i \in DOMAIN d.entries : d.entries[i].name = entry]

\* _get_apis; the children receive a reference to the package being built
RECURSIVE get_apis(_, _, _, _)
get_apis(name, d, entry_points, parent) ==
    LET self == ParentLink(name, parent) IN
    Package(name, parent,
            [entry \in Range(entry_points) |->
                LET child == EntryAt(d, entry) IN
                IF child.kind = "dir"
                THEN get_apis(entry, child, get_entry_points(child), Some(self))
                ELSE Package(entry, Some(self), <<>>,
                             get_apis_from_source(d.path[1],
                                                  [name |-> Tail(child.path), parses |-> TRUE,
                                                   stmts |-> child.stmts],
                                                  <<>>).out.value,
                             child.path)],
            <<>>, d.path)

\* name.asname if name.asname else name.name
BoundAs(n) == IF n.asname # None THEN n.asname[1] ELSE n.name

\* ".".join(<list>).split("."): the joined text of no items is "", one empty segment
Dotted(items) == IF items = <<>> THEN <<"">> ELSE items

\* <list>[:-k] for k > 0
DropLast(items, k) == SubSeq(items, 1, IF Len(items) > k THEN Len(items) - k ELSE 0)

\* the module an ImportFrom of this package names
full_module_name(pkg, entity) ==
    IF entity.level = 0 THEN entity.module[1]
    ELSE IF entity.level = 1
    THEN full_name(pkg.parent[1]) \o (IF entity.module # None THEN entity.module[1] ELSE <<>>)
    ELSE Dotted(DropLast(full_name(pkg.parent[1]), entity.level - 1)
                \o (IF entity.module # None THEN entity.module[1] ELSE <<>>))

\* the text of the dotted path an import statement names, for the paths the
\* sources import
ModuleText(path) ==
    IF Len(path) = 1 THEN path[1]
    ELSE CASE path = <<"a", "b", "c">> -> "a.b.c"

\* name.asname if name.asname else name.name, for a name of `import`: its
\* name is a dotted path, bound as its whole text
ImportBoundAs(n) == IF n.asname # None THEN n.asname[1] ELSE ModuleText(n.name)

\* the aliases one import statement appends to new_entities, wildcards left out
AliasesOf(pkg, entity) ==
    IF entity.kind = "Import"
    THEN [i \in DOMAIN entity.names |->
            Alias(ImportBoundAs(entity.names[i]), entity.names[i].name,
                  Append(pkg.id, ImportBoundAs(entity.names[i])))]
    ELSE LET named == SelectSeq(entity.names, LAMBDA n : n.name # "*") IN
         [i \in DOMAIN named |->
            Alias(BoundAs(named[i]), Append(full_module_name(pkg, entity), named[i].name),
                  Append(pkg.id, BoundAs(named[i])))]

\* what one import statement appends to wildcard_alias.full_aliases
WildcardsOf(pkg, entity) ==
    IF entity.kind = "Import" THEN <<>>
    ELSE LET stars == SelectSeq(entity.names, LAMBDA n : n.name = "*") IN
         [i \in DOMAIN stars |-> Append(full_module_name(pkg, entity), "*")]

\* package.entities = {}; for e in new_entities: the first entity of a name stays
FirstWins(new_entities) ==
    [n \in {new_entities[i].name : i \in DOMAIN new_entities} |->
        new_entities[CHOOSE i \in DOMAIN new_entities :
            /\ new_entities[i].name = n
            /\ \A j \in DOMAIN new_entities : new_entities[j].name = n => i <= j]]

\* deepcopy of an entities dict: equal entities, other objects
DeepCopy(entities) ==
    [n \in DOMAIN entities |->
        IF "id" \in DOMAIN entities[n] THEN [entities[n] EXCEPT !.id = <<"deepcopy">> \o @]
        ELSE entities[n]]

\* the last statement of _resolve_import_from, on the children and entities
\* the package has by then
TakeInit(children, entities) ==
    [children |-> children,
     entities |-> IF "__init__" \in DOMAIN children
                  THEN DeepCopy(children["__init__"].entities) ELSE entities]

\* _resolve_import_from: the package as the call leaves it
RECURSIVE resolve_import_from(_)
resolve_import_from(pkg) ==
    LET children == [n \in DOMAIN pkg.children |-> resolve_import_from(pkg.children[n])]
        listed == pkg.entities  \* a list for a module, {} for a directory
        imports == SelectSeq(listed, IsImport)
        wildcards == Flatten([i \in DOMAIN imports |-> WildcardsOf(pkg, imports[i])])
        new_entities ==
               SelectSeq(listed, LAMBDA e : ~IsImport(e))
            \o Flatten([i \in DOMAIN imports |-> AliasesOf(pkg, imports[i])])
            \o (IF Len(wildcards) > 0 THEN <<WildcardAlias(wildcards, Append(pkg.id, "*"))>> ELSE <<>>)
        last == TakeInit(children, FirstWins(new_entities))
    IN  Package(pkg.name, pkg.parent, last.children, last.entities, pkg.id)

-----------------------------------------------------------------------------
(* Inputs and steps of get_apis_from_dir: a directory P nested at most       *)
(* MaxNesting deep, each level with the sub-directory s and the source files *)
(* __init__ and m, each present or not.  The import statements are at module *)
(* level.                                                                    *)

MaxNesting == 3

FunctionDef(name) == [kind |-> "FunctionDef", name |-> name]

\* def f(): ...
\* from .m import f, g as h  |  def f(): ...  |  from Q import *
\* import os as o, a.b.c  |  from .. import f  |  from ..m import *
Sources ==
    {<<FunctionDef("f")>>,
     <<ImportFrom(Some(<<"m">>), <<ImportName("f", None), ImportName("g", Some("h"))>>, 1),
       FunctionDef("f"),
       ImportFrom(Some(<<"Q">>), <<ImportName("*", None)>>, 0)>>,
     <<Import(<<ImportName(<<"os">>, Some("o")), ImportName(<<"a", "b", "c">>, None)>>),
       ImportFrom(None, <<ImportName("f", None)>>, 2),
       ImportFrom(Some(<<"m">>), <<ImportName("*", None)>>, 2)>>}

\* the source files a directory at this path can hold, in listing order
FileLists(path) ==
    {SelectSeq(<<i, m>>, LAMBDA x : x # None) :
        i \in {None} \cup {SourceFile(Append(path, "__init__"), src) : src \in Sources},
        m \in {None} \cup {SourceFile(Append(path, "m"), src) : src \in Sources}}

RECURSIVE Directories(_, _)
Directories(path, depth) ==
    {Directory(path, files) : files \in FileLists(path)}
    \cup (IF depth <= 1 THEN {}
          ELSE {Directory(path, <<sub>> \o files) :
                    sub \in Directories(Append(path, "s"), depth - 1), files \in FileLists(path)})

ImportsInit ==
    /\ DiffIdle
    /\ ResolverIdle
    /\ MatchIdle
    /\ AliasIdle
    /\ BesidesImportsIdle
    /\ pc = "dir_input"
    /\ source_dir \in {Some(d) : d \in Directories(<<"P">>, MaxNesting)}
    /\ package = None

ImportsUnchanged == UNCHANGED <<source_dir, diffVars, resolverVars, matchVars, aliasVars, besidesImports>>

\* entries = _get_entry_points(dir); package = _get_apis(name, dir, entries)
GetApis ==
    /\ pc = "dir_input"
    /\ package' = Some(get_apis("P", source_dir[1], get_entry_points(source_dir[1]), None))
    /\ pc' = "apis_extracted"
    /\ ImportsUnchanged

\* _resolve_import_from(package)
ResolveImportFrom ==
    /\ pc = "apis_extracted"
    /\ package' = Some(resolve_import_from(package[1]))
    /\ pc' = "imports_resolved"
    /\ ImportsUnchanged

ImportsNext == GetApis \/ ResolveImportFrom

SpecImports == ImportsInit /\ [][ImportsNext]_vars

-----------------------------------------------------------------------------
(* Properties of the package tree *)

\* the packages of a tree: the root and the packages below it
RECURSIVE PackagesOf(_)
PackagesOf(pkg) == {pkg} \cup UNION {PackagesOf(pkg.children[n]) : n \in DOMAIN pkg.children}

\* the names on the ancestor chain of a package or parent reference, root first
RECURSIVE AncestorNames(_)
AncestorNames(p) ==
    IF p.parent = None THEN <<p.name>> ELSE Append(AncestorNames(p.parent[1]), p.name)

WithInit == {p \in PackagesOf(get_apis("P", source_dir[1], get_entry_points(source_dir[1]), None)) :
                "__init__" \in DOMAIN p.children}

\* the package of the resolved tree built from the same directory
Resolved(p) == CHOOSE q \in PackagesOf(package[1]) : q.id = p.id

\* an entities dict without the identities of its objects
Plain(entities) ==
    [n \in DOMAIN entities |->
        IF "id" \in DOMAIN entities[n] THEN [entities[n] EXCEPT !.id = <<>>] ELSE entities[n]]

\* C19: after the resolution, a package with an '__init__' child holds the
\* resolved entities of that child, the child is no longer among its
\* children, cannot be navigated to and contributes no keys
C19_InitChildMergedAndRemoved ==
    pc = "imports_resolved" =>
        \A p \in WithInit :
            /\ Plain(Resolved(p).entities) = Plain(resolve_import_from(p.children["__init__"]).entities)
            /\ "__init__" \notin DOMAIN Resolved(p).children
            /\ ~GetItem(Resolved(p), Append(full_name(p), "__init__")).ok
            /\ \A key \in Range(keys(Resolved(p))) :
                   ~StartsWith(key, Append(full_name(p), "__init__"))

\* the source files of a directory tree
RECURSIVE FilesOf(_)
FilesOf(d) ==
    UNION {IF d.entries[i].kind = "file" THEN {d.entries[i]} ELSE FilesOf(d.entries[i])
            : i \in DOMAIN d.entries}

\* the modules of the resolved tree, each with the source file it was built from
ResolvedModules ==
    {m \in [file : FilesOf(source_dir[1]), pkg : PackagesOf(package[1])] : m.pkg.id = m.file.path}

\* the names of the `import` statements of a source file
ImportedNames(f) ==
    LET imports == SelectSeq(f.stmts, LAMBDA st : st.kind = "Import")
    IN  UNION {Range(imports[i].names) : i \in DOMAIN imports}

HoldsAlias(entities, name, full_alias) ==
    /\ name \in DOMAIN entities
    /\ entities[name].kind = "Alias"
    /\ entities[name].name = name
    /\ entities[name].full_alias = full_alias

\* C23: after the resolution, `import X` with a dotted path X and no alias
\* name has made an Alias bound under the leading segment of X, and
\* `import X as Y` has made Alias(Y, X)
C23_ImportBoundUnderLeadingSegment ==
    pc = "imports_resolved" =>
        \A m \in ResolvedModules : \A n \in ImportedNames(m.file) :
            HoldsAlias(m.pkg.entities, IF n.asname # None THEN n.asname[1] ELSE n.name[1], n.name)

\* the names one statement binds, with the kind of entity each stands for
Bindings(st) ==
    IF st.kind = "FunctionDef" THEN <<[name |-> st.name, kind |-> "Function"]>>
    ELSE IF st.kind = "Import"
    THEN [i \in DOMAIN st.names |-> [name |-> ImportBoundAs(st.names[i]), kind |-> "Alias"]]
    ELSE LET named == SelectSeq(st.names, LAMBDA n : n.name # "*")
         IN  [i \in DOMAIN named |-> [name |-> BoundAs(named[i]), kind |-> "Alias"]]

\* the bindings of a source file in declaration order
Declared(f) == Flatten([i \in DOMAIN f.stmts |-> Bindings(f.stmts[i])])

\* C24: after the resolution, the entity a module keeps for a name is the
\* earliest-declared one of that name, a definition or an Alias of an import:
\* a later definition has not replaced an earlier import, a later import has
\* not replaced an earlier definition
C24_EarliestDeclarationKept ==
    pc = "imports_resolved" =>
        \A m \in ResolvedModules :
            LET decl == Declared(m.file) IN
            \A i \in DOMAIN decl :
                (\A j \in 1..(i - 1) : decl[j].name # decl[i].name) =>
                    /\ decl[i].name \in DOMAIN m.pkg.entities
                    /\ m.pkg.entities[decl[i].name].kind = decl[i].kind

-----------------------------------------------------------------------------
(* Checker: AccessChain.match, check, check_tree.  An entry of a chain is    *)
(* [name, call]: a str (call = None) or a Call.  The message of a result is  *)
(* kept as the fixed part of its text.                                       *)

MatchResult(status, message, matched_name, matched_api) ==
    [status |-> status, message |-> message,
     matched_name |-> matched_name, matched_api |-> matched_api]

\* a Function with decorators, as a method of a Class
Method(name, args, decorators, id) ==
    [kind |-> "Function", name |-> name, args |-> args, decorators |-> decorators, id |-> id]

Decorators(f) == IF "decorators" \in DOMAIN f THEN f.decorators ELSE <<>>

\* Class.constructor and Class.get_method: the first method of the name
get_method(cls, name) ==
    LET hits == {i \in DOMAIN cls.methods : cls.methods[i].name = name} IN
    IF hits = {} THEN None
    ELSE Some(cls.methods[CHOOSE i \in hits : \A j \in hits : i <= j])

constructor_Unknown(cls) == None

constructor(cls) == get_method(cls, "__init__")

\* item.match(func, class_func)[0]; the calls of the inputs have at most one
\* keyword, so there is one order in which kwargs is iterated
CallMatches(c, f, class_f) == match(c, f, class_f, CHOOSE kws \in Perms(c.kwargs) : TRUE)[1]

\* self.top_level not in apis, negated: the first entry is a str and a key
InFederation(self, federation) ==
    self.chain[1].call = None /\ self.chain[1].name \in DOMAIN federation

Entry(name) == [name |-> name, call |-> None]

CallEntry(c) == [name |-> c.name, call |-> Some(c)]

\* the branch of the loop of AccessChain.match for an entry that is a Call
MatchCall(self, i, key, curr_entity) ==
    LET item == self.chain[i].call[1]
        matched_here == MatchResult("MATCH", "", key, Some(curr_entity))
    IN
    IF curr_entity.kind = "Function"
    THEN IF ~CallMatches(item, curr_entity, FALSE)
         THEN MatchResult("MISMATCH", "does not match function", <<>>, None)
         ELSE matched_here
    ELSE IF curr_entity.kind = "Class"
    THEN IF constructor(curr_entity) # None /\ ~CallMatches(item, constructor(curr_entity)[1], TRUE)
         THEN MatchResult("MISMATCH", "does not match class constructor", <<>>, None)
         ELSE IF i < Len(self.chain) /\ self.chain[i + 1].call # None
         THEN LET next == self.chain[i + 1].call[1]
                  method == get_method(curr_entity, next.name)
              IN  IF method = None THEN matched_here
                  ELSE LET static_method ==
                               \E d \in Range(Decorators(method[1])) : Contains(d, <<"staticmethod">>)
                       IN  IF CallMatches(next, method[1], ~static_method)
                           THEN MatchResult("MATCH", "", Append(key, next.name), method)
                           ELSE MatchResult("MISMATCH", "does not match class method", <<>>, None)
         ELSE matched_here
    ELSE IF curr_entity.kind = "Package"
    THEN MatchResult("MISMATCH", "is a module but it is invoked", <<>>, None)
    ELSE matched_here

\* the loop of AccessChain.match from entry i on
RECURSIVE MatchLoop(_, _, _, _, _)
MatchLoop(self, federation, i, curr_keys, curr_entity) ==
    IF i > Len(self.chain) THEN MatchResult("MATCH", "", curr_keys, Some(curr_entity))
    ELSE LET item == self.chain[i]
             key == Append(curr_keys, item.name)
             top == federation[self.chain[1].name]
             got == Get(top, key, <<>>, <<>>)
             fallback == GetItem(top, key)
         IN  IF ~got.ok /\ ~fallback.ok
             THEN MatchResult("MISSING", "does not exist", <<>>, None)
             ELSE LET entity == IF got.ok THEN got.value ELSE fallback.value IN
                  IF item.call # None THEN MatchCall(self, i, key, entity)
                  ELSE IF entity.kind # "Package" THEN MatchResult("MATCH", "", key, Some(entity))
                  ELSE MatchLoop(self, federation, i + 1, key, entity)

\* AccessChain.match
chain_match(self, federation) ==
    IF ~InFederation(self, federation)
    THEN MatchResult("MISSING", "does not exist", <<>>, None)
    ELSE MatchLoop(self, federation, 1, <<>>, federation[self.chain[1].name])

CheckOne_Unfiltered(c, federation) == <<<<c, chain_match(c, federation)>>>>

\* the body of the loop of check: what one chain appends to matches
CheckOne(c, federation) ==
    IF ~InFederation(c, federation) THEN <<>> ELSE <<<<c, chain_match(c, federation)>>>>

\* checker.check
RECURSIVE check(_, _)
check(chain_list, federation) ==
    IF chain_list = <<>> THEN <<>>
    ELSE CheckOne(Head(chain_list), federation) \o check(Tail(chain_list), federation)

\* checker.check_tree; a dict is the sequence of its items
check_tree(chain_dict, federation) ==
    [i \in DOMAIN chain_dict |->
        [key |-> chain_dict[i].key, value |-> check(chain_dict[i].value, federation)]]

-----------------------------------------------------------------------------
(* Inputs and steps of the checker: a federation of P, with the module m,   *)
(* and possibly Q; the chains of two source units, at most MaxChains in the  *)
(* first                                                                     *)

MaxChains == 2

CheckedClass ==
    Class("f", <<>>, <<>>,
          <<Method("__init__", <<Arg("self", None), Arg("a", None)>>, <<>>, <<"P", "f", "__init__">>),
            Method("run", <<Arg("self", None)>>, <<>>, <<"P", "f", "run">>),
            Method("stat", <<Arg("x", None)>>, <<<<"staticmethod">>>>, <<"P", "f", "stat">>)>>,
          <<>>, <<"P", "f">>)

\* a class whose constructor is inherited
InheritingClass ==
    Class("f", <<>>, <<>>,
          <<Method("run", <<Arg("self", None)>>, <<>>, <<"P", "f", "run">>)>>,
          <<>>, <<"P", "f">>)

\* what the name f of P holds
FHoldings ==
    {FunctionEntity("f", <<Arg("a", None)>>, <<"P", "f">>),
     Alias("f", <<"Q", "g">>, <<"P", "f">>),
     Alias("f", <<"P", "h">>, <<"P", "f">>),
     Alias("f", <<"P", "f">>, <<"P", "f">>),
     Alias("f", <<"P", "m">>, <<"P", "f">>),
     CheckedClass,
     InheritingClass,
     Variable("f", <<"0">>)}

\* what the name g of Q holds
GHoldings ==
    {FunctionEntity("g", <<>>, <<"Q", "g">>),
     FunctionEntity("g", <<Arg("a", None)>>, <<"Q", "g">>),
     Alias("g", <<"P", "f">>, <<"Q", "g">>)}

CheckedFederations ==
    {[t \in {"P"} \cup (IF g = None THEN {} ELSE {"Q"}) |->
        IF t = "Q" THEN Package("Q", None, <<>>, [n \in {"g"} |-> g[1]], <<"Q">>)
        ELSE Package("P", None, [n \in {"m"} |-> Pm],
                     [n \in {"h"} \cup (IF f = None THEN {} ELSE {"f"}) \cup (IF star THEN {"*"} ELSE {}) |->
                        IF n = "h" THEN FunctionEntity("h", <<>>, <<"P", "h">>)
                        ELSE IF n = "f" THEN f[1]
                        ELSE WildcardAlias(<<<<"Q", "*">>>>, <<"P", "*">>)],
                     <<"P">>)]
     : f \in {None} \cup {Some(x) : x \in FHoldings},
       g \in {None} \cup {Some(x) : x \in GHoldings},
       star \in BOOLEAN}

NoArgs(name) == CallEntry(Call(name, 0, {}, FALSE, FALSE))

OneArg(name) == CallEntry(Call(name, 1, {}, FALSE, FALSE))

\* P | P.f | P.f() | P.f(*) | P.f(a=*).run() | P.f(*).stat(*) | P.f.k() | P.m.k(*) | P.m() | Q.g() |
\* R.x | g(*)
ChainPool ==
    {<<Entry("P")>>,
     <<Entry("P"), Entry("f")>>,
     <<Entry("P"), NoArgs("f")>>,
     <<Entry("P"), OneArg("f")>>,
     <<Entry("P"), CallEntry(Call("f", 0, {"a"}, FALSE, FALSE)), NoArgs("run")>>,
     <<Entry("P"), OneArg("f"), OneArg("stat")>>,
     <<Entry("P"), Entry("f"), NoArgs("k")>>,
     <<Entry("P"), Entry("m"), OneArg("k")>>,
     <<Entry("P"), NoArgs("m")>>,
     <<Entry("Q"), NoArgs("g")>>,
     <<Entry("R"), Entry("x")>>,
     <<OneArg("g")>>}

\* the chains of one unit: distinct objects, told apart by unit and position
ChainLists(unit, n) ==
    UNION {{[i \in 1..k |-> AccessChain(cs[i], {i}, <<unit, i>>)] : cs \in [1..k -> ChainPool]}
           : k \in 0..n}

CheckerInit ==
    /\ DiffIdle
    /\ MatchIdle
    /\ AliasIdle
    /\ BesidesCheckerIdle
    /\ pc = "check_input"
    /\ apis \in CheckedFederations
    /\ call_args = None
    /\ result = None
    /\ access_chains \in
        {<<[key |-> "a.py", value |-> l1], [key |-> "b.py", value |-> l2]>> :
            l1 \in ChainLists("a.py", MaxChains), l2 \in ChainLists("b.py", 0)}
        \cup {<<[key |-> "b.py", value |-> l2]>> : l2 \in ChainLists("b.py", 1)}
    /\ violations = <<>>

\* violations = check_tree(access_chains, package)
CheckTree ==
    /\ pc = "check_input"
    /\ violations' = check_tree(access_chains, apis)
    /\ pc' = "check_done"
    /\ UNCHANGED <<access_chains, diffVars, resolverVars, matchVars, aliasVars, besidesChecker>>

CheckerNext == CheckTree

SpecChecker == CheckerInit /\ [][CheckerNext]_vars

-----------------------------------------------------------------------------
(* Properties of the checker *)

\* the chains of a list rooted in a package of the federation, in list order
Rooted(chain_list) ==
    SelectSeq(chain_list,
              LAMBDA c : c.chain[1].call = None /\ c.chain[1].name \in DOMAIN apis)

ForeignFunction(top, key) ==
    LET e == GetItem(apis[top], key) IN
    IF e.ok /\ e.value.kind = "Alias" /\ e.value.full_alias[1] # top
            /\ e.value.full_alias[1] \in DOMAIN apis
    THEN LET r == Get(apis[top], key, apis, <<>>) IN
         IF r.ok /\ r.value.kind = "Function" THEN Some(r.value) ELSE None
    ELSE None

\* C20: a call on a name of a top-level package that is an Alias of a
\* Function of another top-level package is matched against that Function:
\* when the call does not fit its signature, the result is MISMATCH
C20_AliasedCallMatchedAcrossPackages ==
    pc = "check_done" =>
        \A u \in DOMAIN violations : \A i \in DOMAIN violations[u].value :
            LET c == violations[u].value[i][1]
                r == violations[u].value[i][2]
            IN  (/\ Len(c.chain) = 2
                 /\ c.chain[2].call # None
                 /\ ForeignFunction(c.chain[1].name, <<c.chain[1].name, c.chain[2].name>>) # None)
                => LET target == ForeignFunction(c.chain[1].name,
                                                 <<c.chain[1].name, c.chain[2].name>>)[1]
                   IN  ~CallMatches(c.chain[2].call[1], target, FALSE) => r.status = "MISMATCH"

\* the pairs check_tree made, as [chain, result] records
CheckedPairs ==
    {[chain |-> violations[u].value[i][1].chain, result |-> violations[u].value[i][2]] :
        <<u, i>> \in {ui \in (DOMAIN violations) \X (1..MaxChains) : ui[2] \in DOMAIN violations[ui[1]].value}}

\* the path the first i entries of a chain spell
ChainKey(chain, i) == [j \in 1..i |-> chain[j].name]

\* what the path of the first i entries resolves to inside the root package
ResolvedAt(chain, i) ==
    LET top == apis[chain[1].name]
        got == Get(top, ChainKey(chain, i), <<>>, <<>>)
    IN  IF got.ok THEN got ELSE GetItem(top, ChainKey(chain, i))

\* entry i is a call that checking reaches and that resolves to a Class: the
\* entries before it are plain names of packages
ClassCallAt(chain, i) ==
    /\ i \in DOMAIN chain
    /\ chain[i].call # None
    /\ \A j \in 1..(i - 1) :
         chain[j].call = None /\ ResolvedAt(chain, j).ok /\ ResolvedAt(chain, j).value.kind = "Package"
    /\ ResolvedAt(chain, i).ok
    /\ ResolvedAt(chain, i).value.kind = "Class"

\* the first method of a name that a class defines, None if it defines none
Defines(cls, name) ==
    LET hits == {k \in DOMAIN cls.methods : cls.methods[k].name = name} IN
    IF hits = {} THEN None ELSE Some(cls.methods[CHOOSE k \in hits : \A l \in hits : k <= l])

IsStatic(method) == \E k \in DOMAIN method.decorators : method.decorators[k] = <<"staticmethod">>

\* the method that the call after entry i names, None if entry i is the last
\* one, the next entry is no call or the class defines no such method
NamedMethod(chain, i, cls) ==
    IF i < Len(chain) /\ chain[i + 1].call # None THEN Defines(cls, chain[i + 1].name) ELSE None

\* C28: for a call entry that resolves to a Class, a call that does not fit
\* __init__ as a bound call gives MISMATCH, and a class without __init__
\* accepts the call; then, when the next entry is a call naming a method the
\* class defines, the chain is MATCH or MISMATCH as that call fits the method,
\* bound unless the method is decorated staticmethod, and on MATCH the matched
\* name is the path to the class followed by the method name and the matched
\* entity is the method; otherwise the chain is MATCH with the class.
C28_ClassCallMatching ==
    pc = "check_done" =>
        \A p \in CheckedPairs : \A i \in DOMAIN p.chain :
            ClassCallAt(p.chain, i) =>
                LET cls == ResolvedAt(p.chain, i).value
                    init == Defines(cls, "__init__")
                    method == NamedMethod(p.chain, i, cls)
                IN  IF init # None /\ ~CallMatches(p.chain[i].call[1], init[1], TRUE)
                    THEN p.result.status = "MISMATCH"
                    ELSE IF method # None
                    THEN IF CallMatches(p.chain[i + 1].call[1], method[1], ~IsStatic(method[1]))
                         THEN /\ p.result.status = "MATCH"
                              /\ p.result.matched_name = Append(ChainKey(p.chain, i), method[1].name)
                              /\ p.result.matched_api = method
                         ELSE p.result.status = "MISMATCH"
                    ELSE /\ p.result.status = "MATCH"
                         /\ p.result.matched_name = ChainKey(p.chain, i)
                         /\ p.result.matched_api = Some(cls)

\* P.f(*).stat(*) matches the static method of one parameter, and P.f() is
\* refused by __init__(self, a)
C28_Witness ==
    /\ pc = "check_done"
    /\ "f" \in DOMAIN apis["P"].entities
    /\ apis["P"].entities["f"] = CheckedClass
    /\ \E p \in CheckedPairs :
         /\ p.chain = <<Entry("P"), OneArg("f"), OneArg("stat")>>
         /\ p.result.status = "MATCH"
         /\ p.result.matched_name = <<"P", "f", "stat">>
    /\ \E p \in CheckedPairs :
         /\ p.chain = <<Entry("P"), NoArgs("f")>>
         /\ p.result.status = "MISMATCH"

\* checking reaches entry i: the entries before it are plain names that
\* resolve to packages
Reached(chain, i) ==
    \A j \in 1..(i - 1) :
        chain[j].call = None /\ ResolvedAt(chain, j).ok /\ ResolvedAt(chain, j).value.kind = "Package"

\* a package holds a name: as a child, as an entity, or under its wildcard import
Holds(pkg, name) ==
    name \in DOMAIN pkg.children \/ name \in DOMAIN pkg.entities \/ "*" \in DOMAIN pkg.entities

\* entry i is reached and its name is absent from the package that the
\* entries before it resolve to
AbsentAt(chain, i) ==
    /\ i \in 2..Len(chain)
    /\ Reached(chain, i)
    /\ ~Holds(ResolvedAt(chain, i - 1).value, chain[i].name)

\* the chains of all units
AllChains == UNION {{access_chains[u].value[i] : i \in DOMAIN access_chains[u].value} : u \in DOMAIN access_chains}

\* C29: match returns MISSING for a chain whose root is no key of the
\* federation; for a chain rooted in the federation it returns MISSING when
\* an entry that checking reaches is absent from the package it is looked up
\* in, and in no other case.
C29_MissingOnlyForAbsentSegment ==
    pc = "check_done" =>
        /\ \A c \in AllChains :
             ~InFederation(c, apis) => chain_match(c, apis).status = "MISSING"
        /\ \A p \in CheckedPairs :
             p.result.status = "MISSING" <=> \E i \in DOMAIN p.chain : AbsentAt(p.chain, i)

-----------------------------------------------------------------------------
(* Inputs and steps of get_api_entities: the tree of one source unit of at  *)
(* most MaxTreeStmts module-level statements                                *)

MaxTreeStmts == 3

Assign(targets, n) == [kind |-> "Assign", targets |-> targets, elts |-> Some(n)]

Def(kind, name, body) == [kind |-> kind, name |-> name, body |-> body]

Attribute(value, attr) == [kind |-> "Attribute", value |-> value, attr |-> attr]

\* def o(): pass
\* def f():
\*     x, y = 1, 2
\*     def g(): pass
\* async def k(): pass
\* async def h():
\*     x, y = 1, 2
\*     def g(): pass
\* class C:
\*     u, w = 1, 2
\*     def __init__(self): self.a, b = 1, 2
\*     def m(self): pass
\*     class D: pass
\* v, w = 1, 2
\* import os
TreeStatements ==
    {Def("FunctionDef", "o", <<>>),
     Def("FunctionDef", "f", <<Assign(<<Name("x"), Name("y")>>, 2), Def("FunctionDef", "g", <<>>)>>),
     Def("AsyncFunctionDef", "k", <<>>),
     Def("AsyncFunctionDef", "h", <<Assign(<<Name("x"), Name("y")>>, 2), Def("FunctionDef", "g", <<>>)>>),
     Def("ClassDef", "C",
         <<Assign(<<Name("u"), Name("w")>>, 2),
           Def("FunctionDef", "__init__", <<Assign(<<Attribute("self", "a"), Name("b")>>, 2)>>),
           Def("FunctionDef", "m", <<>>),
           Def("ClassDef", "D", <<>>)>>),
     Assign(<<Name("v"), Name("w")>>, 2),
     [kind |-> "Import", names |-> <<[name |-> <<"os">>, asname |-> None]>>]}

Trees == {[kind |-> "Module", body |-> b] : b \in UNION {[1..n -> TreeStatements] : n \in 0..MaxTreeStmts}}

EntitiesInit ==
    /\ DiffIdle
    /\ ResolverIdle
    /\ MatchIdle
    /\ AliasIdle
    /\ BesidesEntitiesIdle
    /\ pc = "tree_input"
    /\ tree \in {Some(t) : t \in Trees}
    /\ api_entities = None

GetApiEntities ==
    /\ pc = "tree_input"
    /\ api_entities' = Some(get_api_entities(tree[1]))
    /\ pc' = "entities_done"
    /\ UNCHANGED <<tree, diffVars, resolverVars, matchVars, aliasVars, besidesEntities>>

EntitiesNext == GetApiEntities

SpecEntities == EntitiesInit /\ [][EntitiesNext]_vars

-----------------------------------------------------------------------------
(* Properties of get_api_entities *)

\* kind and name of each entity of a list
Outline(entities) == [i \in DOMAIN entities |-> <<entities[i].kind, entities[i].name>>]

\* what one module-level statement stands for: a Function for a function
\* definition, synchronous or async, a Class for a class definition, the
\* Variables of an assignment
ModuleLevel(st) ==
    IF st.kind \in {"FunctionDef", "AsyncFunctionDef"} THEN <<<<"Function", st.name>>>>
    ELSE IF st.kind = "ClassDef" THEN <<<<"Class", st.name>>>>
    ELSE IF st.kind = "Assign"
    THEN LET names == SelectSeq(st.targets, LAMBDA t : t.kind = "Name")
         IN  [i \in DOMAIN names |-> <<"Variable", names[i].id>>]
    ELSE <<>>

\* C22: get_api_entities returns, in source order, one Function for each
\* module-level function definition, synchronous or async, one Class for
\* each class definition and the Variables of each module-level assignment,
\* and nothing for what is nested in the body of a function
C22_ModuleLevelEntitiesInOrder ==
    pc = "entities_done" =>
        /\ api_entities[1].ok
        /\ Outline(api_entities[1].value)
             = Join([i \in DOMAIN tree[1].body |-> ModuleLevel(tree[1].body[i])], <<>>)

-----------------------------------------------------------------------------
(* The federation under lookups.  The entities are Python objects: what a   *)
(* lookup assigns to an object of the federation stays in the federation.   *)
(* __getitem__ assigns name and full_aliases of the object it made for a     *)
(* wildcard lookup; get and query assign to no attribute themselves.         *)

\* Package.query, and its loop over the aliases
RECURSIVE Query(_, _, _, _), QueryAliasLoop(_, _, _, _, _, _)
Query(self, key, top_levels, prev_aliases) ==
    IF key[1] # self.name THEN RaiseKeyError(key, "is not in this package")
    ELSE IF Len(key) = 1 THEN Return(self)
    ELSE
    LET first == key[2]
        rest == SubSeq(key, 3, Len(key))
        res == IF first \in DOMAIN self.children THEN Some(self.children[first])
               ELSE IF first \in DOMAIN self.entities THEN Some(self.entities[first])
               ELSE None
    IN
    IF res # None /\ res[1].kind = "Alias"
    THEN QueryAliasLoop(self, key, <<res[1].full_alias>>, rest, top_levels, prev_aliases)
    ELSE IF res = None /\ "*" \in DOMAIN self.entities
    THEN QueryAliasLoop(self, key,
                        [i \in DOMAIN self.entities["*"].full_aliases |->
                            ReplaceStar(self.entities["*"].full_aliases[i], first)],
                        rest, top_levels, prev_aliases)
    ELSE IF res = None THEN RaiseKeyError(key, "is not in this package")
    ELSE IF rest = <<>> THEN Return(res[1])
    ELSE IF res[1].kind = "Class" THEN Return(get_entity(res[1], rest))
    ELSE IF res[1].kind = "Package" THEN Query(res[1], <<first>> \o rest, top_levels, prev_aliases)
    ELSE RaiseKeyError(key, "is not in this package")

QueryAliasLoop(self, key, todo, rest, top_levels, prev_aliases) ==
    IF todo = <<>> THEN RaiseKeyError(key, "cannot be resolved in this package")
    ELSE LET alias == Head(todo) IN
         IF alias \in Range(prev_aliases) THEN RaiseKeyError(key, "is a cyclic reference")
         ELSE IF alias[1] \in DOMAIN top_levels
         THEN LET r == Query(top_levels[alias[1]], alias \o rest, top_levels,
                             Append(prev_aliases, alias))
              IN  IF r.ok THEN r
                  ELSE QueryAliasLoop(self, key, Tail(todo), rest, top_levels, prev_aliases)
         ELSE QueryAliasLoop(self, key, Tail(todo), rest, top_levels, prev_aliases)

\* the WildcardAlias and the name k of self[key], when the loop of
\* __getitem__ ends in the branch that answers through the wildcard
WildcardHit(self, key) ==
    IF Len(key) < 2 \/ key[1] # self.name THEN None
    ELSE LET r == GetItemLoop(self, SubSeq(key, 2, Len(key) - 1), key)
             k == Last(key)
         IN  IF /\ r.ok
                /\ r.value.kind = "Package"
                /\ k \notin DOMAIN r.value.children
                /\ k \notin DOMAIN r.value.entities
                /\ "*" \in DOMAIN r.value.entities
             THEN Some([w |-> r.value.entities["*"], k |-> k])
             ELSE None

\* the objects self[key] assigns attributes to, as the assignments leave them
Assigned(self, key) ==
    LET h == WildcardHit(self, key) IN
    IF h = None THEN {} ELSE {WildcardCopy(h[1].w, h[1].k)}

\* a package after the assignments: an entity that is one of the assigned
\* objects has the attributes assigned to it
RECURSIVE AfterAssignments(_, _)
AfterAssignments(pkg, objs) ==
    [pkg EXCEPT
        !.children = [n \in DOMAIN pkg.children |-> AfterAssignments(pkg.children[n], objs)],
        !.entities = [n \in DOMAIN pkg.entities |->
                        IF \E o \in objs : o.id = pkg.entities[n].id
                        THEN LET o == CHOOSE o \in objs : o.id = pkg.entities[n].id
                             IN  [pkg.entities[n] EXCEPT !.name = o.name, !.full_aliases = o.full_aliases]
                        ELSE pkg.entities[n]]]

\* the federation after a call whose invocations of __getitem__ are `lookups`
FederationAfter(federation, lookups) ==
    LET objs == UNION {Assigned(c.self, c.key) : c \in lookups}
    IN  [t \in DOMAIN federation |-> AfterAssignments(federation[t], objs)]

-----------------------------------------------------------------------------
(* Inputs and steps of the lookups: the federations of the resolver with at *)
(* most MaxFrameEntities entities, and any sequence of calls                *)

MaxFrameEntities == 2

FrameInit ==
    /\ DiffIdle
    /\ MatchIdle
    /\ AliasIdle
    /\ MoreIdle
    /\ pc = "idle"
    /\ apis \in {Federation(f) : f \in {g \in Layouts : Cardinality(DOMAIN g) <= MaxFrameEntities}}
    /\ call_args = None
    /\ result = None

FrameUnchanged == UNCHANGED <<diffVars, matchVars, aliasVars, moreVars>>

\* pkg[key]
FrameGetItem ==
    /\ pc = "idle"
    /\ \E l \in Lookups :
        /\ call_args' = Some([fn |-> "getitem", self |-> l[1], key |-> l[2]])
        /\ result' = Some(GetItem(apis[l[1]], l[2]))
        /\ apis' = FederationAfter(apis, {[self |-> apis[l[1]], key |-> l[2]]})
    /\ pc' = "lookup_done"
    /\ FrameUnchanged

\* key in pkg
FrameContains ==
    /\ pc = "idle"
    /\ \E l \in Lookups :
        /\ call_args' = Some([fn |-> "contains", self |-> l[1], key |-> l[2]])
        /\ result' = Some(Return(GetItem(apis[l[1]], l[2]).ok))
        /\ apis' = FederationAfter(apis, {[self |-> apis[l[1]], key |-> l[2]]})
    /\ pc' = "lookup_done"
    /\ FrameUnchanged

\* pkg.get(key) and pkg.get(key, top_levels=federation)
FrameGet ==
    /\ pc = "idle"
    /\ \E l \in Lookups, top_levels \in {<<>>, apis} :
        /\ call_args' = Some([fn |-> "get", self |-> l[1], key |-> l[2]])
        /\ result' = Some(Get(apis[l[1]], l[2], top_levels, <<>>))
        /\ apis' = FederationAfter(apis, GetCalls(apis[l[1]], l[2], top_levels, <<>>))
    /\ pc' = "lookup_done"
    /\ FrameUnchanged

\* pkg.query(key) and pkg.query(key, top_levels=federation); query calls
\* neither __getitem__ nor get
FrameQuery ==
    /\ pc = "idle"
    /\ \E l \in Lookups, top_levels \in {None, Some(apis)} :
        /\ call_args' = Some([fn |-> "query", self |-> l[1], key |-> l[2]])
        /\ result' = Some(Query(apis[l[1]], l[2],
                                IF top_levels = None THEN [n \in {l[1]} |-> apis[l[1]]]
                                ELSE top_levels[1],
                                <<>>))
        /\ apis' = FederationAfter(apis, {})
    /\ pc' = "lookup_done"
    /\ FrameUnchanged

\* the caller takes the result and is ready for the next lookup
FrameReturn ==
    /\ pc = "lookup_done"
    /\ pc' = "idle"
    /\ call_args' = None
    /\ result' = None
    /\ UNCHANGED apis
    /\ FrameUnchanged

FrameNext == FrameGetItem \/ FrameContains \/ FrameGet \/ FrameQuery \/ FrameReturn

SpecFrame == FrameInit /\ [][FrameNext]_vars

-----------------------------------------------------------------------------
(* Properties of the federation under lookups *)

\* the identities of the objects of a package tree
RECURSIVE StoredIds(_)
StoredIds(pkg) ==
    {pkg.id} \cup {pkg.entities[n].id : n \in DOMAIN pkg.entities}
    \cup UNION {StoredIds(pkg.children[n]) : n \in DOMAIN pkg.children}

\* self[key] was answered through the wildcard of a package
WildcardAnswer ==
    /\ pc = "lookup_done"
    /\ call_args[1].fn = "getitem"
    /\ WildcardHit(apis[call_args[1].self], call_args[1].key) # None

\* C26: no call of __getitem__, __contains__, get or query, after any
\* sequence of such calls, changes the federation: the children and entities
\* of every package stay as they are, a stored WildcardAlias keeps the name
\* "*" and its full_aliases; and the value __getitem__ returns for a
\* wildcard lookup is an object that is not in the federation
C26_LookupsLeaveFederationUnchanged ==
    [][/\ apis' = apis
       /\ WildcardAnswer' =>
            /\ result'[1].ok
            /\ \A t \in DOMAIN apis' : result'[1].value.id \notin StoredIds(apis'[t])]_vars

\* P.A was answered through the wildcard P.* -> Q.*: the answer names Q.A,
\* the stored WildcardAlias is as it was
C26_Witness ==
    /\ WildcardAnswer
    /\ call_args[1].key = <<"P", "A">>
    /\ result[1].value.full_aliases = <<<<"Q", "A">>>>
    /\ apis["P"].entities["*"].name = "*"
    /\ apis["P"].entities["*"].full_aliases = <<<<"Q", "*">>>>

=============================================================================
